---------------------------- MODULE Spec2Model ----------------------------
(***************************************************************************)
(* Datafeed adapters of klinecharts-pro: the subscribe / unsubscribe state *)
(* machines of LocalDataFeeds (one WebSocket per channel) and of           *)
(* CCXTDataFeeds (watchOHLCV streaming loop or fetchOHLCV polling timer).  *)
(*                                                                         *)
(* Strings built by template literals are modelled by the tuple of their   *)
(* parts: `${multiplier}m` is <<multiplier, "m">> and                      *)
(* `${ticker}_${timeframe}` is <<ticker, timeframe>>; both encodings are   *)
(* injective on the strings the code can build.                            *)
(***************************************************************************)
EXTENDS Integers, Sequences, FiniteSets, Bags, TLC

(* ----------------------------- bounds ---------------------------------- *)
\* number of subscribe calls the host issues on the LocalDataFeeds instance
MaxLocalSubs == 3
\* number of subscribe calls the host issues on the CCXTDataFeeds instance
MaxCCXTSubs == 2
\* fetchOHLCV calls a polling timer may have in flight when it ticks again
MaxInflight == 2
\* candle timestamps the upstream can answer with are 1..MaxTs
MaxTs == 2
\* number of subscribe calls the host issues on the OKXDataFeeds instance
MaxOKXSubs == 3
\* number of subscribe calls the host issues on the DefaultDatafeed instance
MaxDefSubs == 2
\* largest Period multiplier handed to the interval conversions
MaxMultiplier == 31

(* --------------------------- common values ----------------------------- *)
\* undefined for handles and callbacks (socket ids and callback ids are >= 1)
None == 0
\* undefined for _currentChannel
NoChannel == <<>>

\* WebSocket.readyState
CONNECTING == "CONNECTING"
OPEN == "OPEN"
CLOSING == "CLOSING"
CLOSED == "CLOSED"

VARIABLES
  Local_urlOk,           \* new WebSocket(wsUrl) accepts the instance's base URL
  Local_ws,              \* this._ws: id of a socket in Local_sockets, or None
  Local_currentChannel,  \* this._currentChannel
  Local_callback,        \* this._callback: callback id, or None
  Local_sockets,         \* every WebSocket the instance has created, by id
  Local_timers,          \* pending setTimeout(..., 100) closures
  Local_nSubs,           \* subscribe calls so far; the n-th passes callback n
  Local_unsubscribed,    \* callbacks cleared by an unsubscribe of their channel
  Local_hostUnsub,       \* the host has called unsubscribe at least once
  Local_last,            \* the operation or event handled last
  CCXT_hasWatch,         \* this._exchange.has['watchOHLCV']
  CCXT_currentCallback,  \* this._currentCallback: callback id, or None
  CCXT_pollingInterval,  \* this._pollingInterval: id of a timer in CCXT_timers, or None
  CCXT_lastTimestamp,    \* this._lastTimestamp, 0 when undefined
  CCXT_subs,             \* the subscribe calls so far: the n-th passes callback n
  CCXT_loops,            \* every watchHandler started, with its position
  CCXT_timers,           \* every setInterval timer created, by id
  CCXT_fetches,          \* bag of fetchLatest invocations awaiting fetchOHLCV
  CCXT_last,             \* the operation or event handled last
  CCXT_seen,             \* the timestamps the current callback was handed so far
  OKX_prevSymbolMarket,  \* this._prevSymbolMarket, "" when undefined
  OKX_ws,                \* this._ws: id of a socket in OKX_sockets, or None
  OKX_currentChannel,    \* this._currentChannel
  OKX_sockets,           \* every WebSocket the instance has created, by id
  OKX_subs,              \* the subscribe calls so far: the n-th passes callback n
  OKX_last,              \* the operation or event handled last
  Def_prevSymbolMarket,  \* this._prevSymbolMarket, "" when undefined
  Def_ws,                \* this._ws: id of a socket in Def_sockets, or None
  Def_sockets,           \* every WebSocket the instance has created, by id
  Def_nSubs,             \* subscribe calls so far; the n-th passes callback n
  Def_last,              \* the operation or event handled last
  Conv_period,           \* the Period handed to an interval conversion
  Conv_fn,               \* the adapter whose conversion was applied, or "none"
  Conv_out,              \* the interval string it returned
  Tick_symbol,           \* the SymbolInfo handed to a ticker conversion
  Tick_fn,               \* the adapter whose ticker conversion was applied, or "none"
  Tick_out,              \* the upstream symbol it returned
  Tick_again,            \* what it returns for its own output
  Bars_source,           \* the upstream an input record comes from
  Bars_in,               \* the upstream record (an array of candles for CCXT)
  Bars_path,             \* the bar-building path that was applied, or "none"
  Bars_out,              \* the bars it built
  Rest_adapter,          \* the adapter whose searchSymbols / getHistoryKLineData run
  Rest_args,             \* the from, to and search arguments of the calls
  Rest_exchange,         \* the markets and candles of the exchange behind CCXT
  Rest_calls,            \* the calls made, in call order
  CCXT_markets,          \* CCXTDataFeeds._markets
  Rest_loads,            \* the loadMarkets calls, in call order: pending, ok or failed
  Poll_period,           \* the Period of a subscribe that falls back to polling
  Poll_done,             \* whether the polling interval was computed
  Poll_interval,         \* the interval handed to setInterval, in milliseconds
  Host_symbol,           \* the symbol signal
  Host_period,           \* the period signal
  Host_widget,           \* whether the chart widget exists
  Host_shown,            \* the symbol and period the widget was last given
  Host_loading,          \* the loading flag
  Host_prev,             \* the value the switch effect returned last
  Host_calls,            \* the getBars calls, in call order
  Host_last,             \* the last operation and the pairs it unsubscribed
  Up_candles,            \* timestamps of the candles the exchange holds
  Key_a,                 \* one Period
  Key_b,                 \* another Period
  Key_fn,                \* "none", or the adapter whose keys were computed
  Key_out                \* the two channel keys

localVars == <<Local_urlOk, Local_ws, Local_currentChannel, Local_callback,
               Local_sockets, Local_timers, Local_nSubs,
               Local_unsubscribed, Local_hostUnsub, Local_last>>

ccxtVars == <<CCXT_hasWatch, CCXT_currentCallback, CCXT_pollingInterval,
              CCXT_lastTimestamp, CCXT_subs, CCXT_loops, CCXT_timers,
              CCXT_fetches, CCXT_last, CCXT_seen>>

okxVars == <<OKX_prevSymbolMarket, OKX_ws, OKX_currentChannel, OKX_sockets,
             OKX_subs, OKX_last>>

defVars == <<Def_prevSymbolMarket, Def_ws, Def_sockets, Def_nSubs, Def_last>>

convVars == <<Conv_period, Conv_fn, Conv_out>>

tickVars == <<Tick_symbol, Tick_fn, Tick_out, Tick_again>>

barsVars == <<Bars_source, Bars_in, Bars_path, Bars_out>>

restVars == <<Rest_adapter, Rest_args, Rest_exchange, Rest_calls, CCXT_markets, Rest_loads>>

pollVars == <<Poll_period, Poll_done, Poll_interval>>

hostVars == <<Host_symbol, Host_period, Host_widget, Host_shown, Host_loading, Host_prev, Host_calls, Host_last>>

upVars == <<Up_candles>>

keyVars == <<Key_a, Key_b, Key_fn, Key_out>>

vars == <<localVars, ccxtVars, okxVars, defVars, convVars, tickVars, barsVars, restVars, pollVars, hostVars, upVars, keyVars>>

\* what the operations of one adapter instance leave alone
notLocal == <<ccxtVars, okxVars, defVars, convVars, tickVars, barsVars, restVars, pollVars, hostVars, upVars, keyVars>>
notCCXT == <<localVars, okxVars, defVars, convVars, tickVars, barsVars, restVars, pollVars, hostVars, upVars, keyVars>>
notOKX == <<localVars, ccxtVars, defVars, convVars, tickVars, barsVars, restVars, pollVars, hostVars, upVars, keyVars>>
notDef == <<localVars, ccxtVars, okxVars, convVars, tickVars, barsVars, restVars, pollVars, hostVars, upVars, keyVars>>
notConv == <<localVars, ccxtVars, okxVars, defVars, tickVars, barsVars, restVars, pollVars, hostVars, upVars, keyVars>>
notTick == <<localVars, ccxtVars, okxVars, defVars, convVars, barsVars, restVars, pollVars, hostVars, upVars, keyVars>>
notBars == <<localVars, ccxtVars, okxVars, defVars, convVars, tickVars, restVars, pollVars, hostVars, upVars, keyVars>>
notRest == <<localVars, ccxtVars, okxVars, defVars, convVars, tickVars, barsVars, pollVars, hostVars, upVars, keyVars>>
notPoll == <<localVars, ccxtVars, okxVars, defVars, convVars, tickVars, barsVars, restVars, hostVars, upVars, keyVars>>
notHost == <<localVars, ccxtVars, okxVars, defVars, convVars, tickVars, barsVars, restVars, pollVars, upVars, keyVars>>
notUp == <<localVars, ccxtVars, okxVars, defVars, convVars, tickVars, barsVars, restVars, pollVars, hostVars, keyVars>>
notKey == <<localVars, ccxtVars, okxVars, defVars, convVars, tickVars, barsVars, restVars, pollVars, hostVars, upVars>>

(* ======================= LocalDataFeeds ================================ *)

LocalSymbols == {"BTC"}

\* Period values the host passes (multiplier, timespan)
LocalPeriods ==
  { [multiplier |-> 1, timespan |-> "minute"],
    [multiplier |-> 1, timespan |-> "week"] }

Local_convertPeriodToTimeframe(period) ==
  IF period.timespan = "minute" THEN <<period.multiplier, "m">>
  ELSE IF period.timespan = "hour" THEN <<period.multiplier, "h">>
  ELSE IF period.timespan = "day" THEN <<period.multiplier, "d">>
  ELSE IF period.timespan = "week" THEN <<period.multiplier * 7, "d">>
  ELSE IF period.timespan = "month" THEN <<period.multiplier * 30, "d">>
  ELSE <<15, "m">>

\* const channel = `${symbol.ticker}_${timeframe}`
Local_channel(symbol, period) ==
  <<symbol, Local_convertPeriodToTimeframe(period)>>

\* the instance fields an operation reads and writes, as one value
LocalState ==
  [ws |-> Local_ws, currentChannel |-> Local_currentChannel,
   callback |-> Local_callback, sockets |-> Local_sockets]

\* WebSocket.close(): starts the closing handshake unless already closing or closed
WsClose(sockets, i) ==
  IF sockets[i].readyState \in {CONNECTING, OPEN}
  THEN [sockets EXCEPT ![i].readyState = CLOSING, ![i].closeCalled = TRUE]
  ELSE [sockets EXCEPT ![i].closeCalled = TRUE]

\* unsubscribe without the channel comparison
Local_unsubscribe_unconditional(st, symbol, period) ==
  IF st.ws # None
  THEN [st EXCEPT
          !.sockets = IF st.sockets[st.ws].readyState \in {OPEN, CONNECTING}
                      THEN WsClose(st.sockets, st.ws) ELSE @,
          !.ws = None, !.currentChannel = NoChannel, !.callback = None]
  ELSE st

\* unsubscribe that forgets to close a socket that is still connecting
Local_unsubscribe_openOnly(st, symbol, period) ==
  IF st.ws # None /\ st.currentChannel = Local_channel(symbol, period)
  THEN [st EXCEPT
          !.sockets = IF st.sockets[st.ws].readyState = OPEN
                      THEN WsClose(st.sockets, st.ws) ELSE @,
          !.ws = None, !.currentChannel = NoChannel, !.callback = None]
  ELSE st

\* unsubscribe(symbol, period)
Local_unsubscribe(st, symbol, period) ==
  IF st.ws # None
  THEN LET channel == Local_channel(symbol, period) IN
       IF st.currentChannel = channel
       THEN [st EXCEPT
               !.sockets = IF st.sockets[st.ws].readyState \in {OPEN, CONNECTING}
                           THEN WsClose(st.sockets, st.ws) ELSE @,
               !.ws = None, !.currentChannel = NoChannel, !.callback = None]
       ELSE st
  ELSE st

\* callbacks an unsubscribe clears: the stored one, when the state changes
LocalCleared(st, st2) ==
  IF st2.callback = None /\ st.callback # None THEN {st.callback} ELSE {}

LocalInit ==
  /\ Local_urlOk \in BOOLEAN
  /\ Local_ws = None
  /\ Local_currentChannel = NoChannel
  /\ Local_callback = None
  /\ Local_sockets = <<>>
  /\ Local_timers = {}
  /\ Local_nSubs = 0
  /\ Local_unsubscribed = {}
  /\ Local_hostUnsub = FALSE
  /\ Local_last = [op |-> "init", sock |-> None, invoked |-> None]

\* a re-subscribe test that never recognises the established connection
Local_sameChannelOpen_never(st, channel) == FALSE

\* subscribe: the channel is the current one and its connection is established
Local_sameChannelOpen(st, channel) ==
  /\ st.currentChannel = channel
  /\ st.ws # None
  /\ st.sockets[st.ws].readyState = OPEN

\* subscribe(symbol, period, callback)
LocalSubscribe(symbol, period) ==
  LET channel == Local_channel(symbol, period)
      callback == Local_nSubs + 1
      st == LocalState
  IN
  /\ Local_nSubs < MaxLocalSubs
  /\ Local_nSubs' = callback
  /\ IF Local_sameChannelOpen(st, channel)
     THEN \* same channel, connection established: only the callback changes
          /\ Local_callback' = callback
          /\ UNCHANGED <<Local_ws, Local_currentChannel, Local_sockets,
                         Local_timers, Local_unsubscribed>>
          /\ Local_last' = [op |-> "subscribe-swap", sock |-> st.ws, invoked |-> None]
     ELSE LET immediate == st.ws # None
                           /\ st.sockets[st.ws].readyState \in {OPEN, CLOSING}
              deferred == st.ws # None /\ ~immediate
              st1 == IF immediate THEN Local_unsubscribe(st, symbol, period) ELSE st
              prev == IF st.ws = None THEN "none" ELSE st.sockets[st.ws].readyState
              ws == Len(st1.sockets) + 1
          IN
          /\ Local_timers' = IF deferred
                             THEN Local_timers \cup
                                    {[symbol |-> symbol, period |-> period, old |-> st.ws]}
                             ELSE Local_timers
          /\ Local_unsubscribed' = Local_unsubscribed \cup LocalCleared(st, st1)
          /\ Local_callback' = callback
          /\ IF Local_urlOk
             THEN /\ Local_sockets' =
                       Append(st1.sockets,
                              [channel |-> channel, readyState |-> CONNECTING,
                               closeCalled |-> FALSE, prev |-> prev])
                  /\ Local_ws' = ws
                  /\ Local_currentChannel' = channel
             ELSE \* new WebSocket throws: the catch block clears the handle
                  /\ Local_sockets' = st1.sockets
                  /\ Local_ws' = None
                  /\ Local_currentChannel' = NoChannel
          /\ Local_last' = [op |-> "subscribe", sock |-> st.ws, invoked |-> None]
  /\ UNCHANGED <<Local_urlOk, Local_hostUnsub>>
  /\ UNCHANGED notLocal

\* the host calls unsubscribe(symbol, period)
LocalUnsubscribe(symbol, period) ==
  LET st == LocalState
      st1 == Local_unsubscribe(st, symbol, period)
  IN
  /\ Local_ws' = st1.ws
  /\ Local_currentChannel' = st1.currentChannel
  /\ Local_callback' = st1.callback
  /\ Local_sockets' = st1.sockets
  /\ Local_unsubscribed' = Local_unsubscribed \cup LocalCleared(st, st1)
  /\ Local_hostUnsub' = TRUE
  /\ Local_last' = [op |-> IF st1 = st THEN "unsubscribe-skip" ELSE "unsubscribe",
                    sock |-> st.ws, invoked |-> None]
  /\ UNCHANGED <<Local_urlOk, Local_timers, Local_nSubs>>
  /\ UNCHANGED notLocal

\* the setTimeout callback scheduled by subscribe(symbol, period, ...)
LocalTimerFire(t) ==
  LET st == LocalState
      channel == Local_channel(t.symbol, t.period)
      st1 == IF st.ws # None /\ st.currentChannel # channel
             THEN Local_unsubscribe(st, t.symbol, t.period)
             ELSE st
  IN
  /\ t \in Local_timers
  /\ Local_timers' = Local_timers \ {t}
  /\ Local_ws' = st1.ws
  /\ Local_currentChannel' = st1.currentChannel
  /\ Local_callback' = st1.callback
  /\ Local_sockets' = st1.sockets
  /\ Local_unsubscribed' = Local_unsubscribed \cup LocalCleared(st, st1)
  /\ Local_last' = [op |-> "timer", sock |-> t.old, invoked |-> None]
  /\ UNCHANGED <<Local_urlOk, Local_nSubs, Local_hostUnsub>>
  /\ UNCHANGED notLocal

\* onopen that keeps a superseded socket open
Local_onopen_keep(sockets, i, currentChannel) ==
  sockets

\* ws.onopen of socket i
Local_onopen(sockets, i, currentChannel) ==
  IF currentChannel = sockets[i].channel
  THEN sockets
  ELSE WsClose(sockets, i)

\* the connection of socket i is established
LocalWsOpen(i) ==
  /\ i \in DOMAIN Local_sockets
  /\ Local_sockets[i].readyState = CONNECTING
  /\ Local_sockets' =
       Local_onopen([Local_sockets EXCEPT ![i].readyState = OPEN], i,
                    Local_currentChannel)
  /\ Local_last' = [op |-> "open", sock |-> i, invoked |-> None]
  /\ UNCHANGED <<Local_urlOk, Local_ws, Local_currentChannel, Local_callback,
                 Local_timers, Local_nSubs, Local_unsubscribed, Local_hostUnsub>>
  /\ UNCHANGED notLocal

\* ws.onmessage of socket i: the callback it invokes, None when it invokes none
Local_onmessage(i, parses) ==
  IF Local_currentChannel # Local_sockets[i].channel THEN None
  ELSE IF ~parses THEN None
  ELSE Local_callback

\* a text frame arrives on socket i; parses: JSON.parse accepts it
LocalWsMessage(i, parses) ==
  /\ i \in DOMAIN Local_sockets
  /\ Local_sockets[i].readyState = OPEN
  /\ Local_last' = [op |-> "message", sock |-> i,
                    invoked |-> Local_onmessage(i, parses)]
  /\ UNCHANGED <<Local_urlOk, Local_ws, Local_currentChannel, Local_callback,
                 Local_sockets, Local_timers, Local_nSubs,
                 Local_unsubscribed, Local_hostUnsub>>
  /\ UNCHANGED notLocal

\* socket i reaches CLOSED (handshake finished, connection failed or dropped);
\* ws.onerror only logs, ws.onclose clears the handle of a matching channel
LocalWsClose(i) ==
  /\ i \in DOMAIN Local_sockets
  /\ Local_sockets[i].readyState # CLOSED
  /\ Local_sockets' = [Local_sockets EXCEPT ![i].readyState = CLOSED]
  /\ IF Local_currentChannel = Local_sockets[i].channel
     THEN /\ Local_ws' = None
          /\ Local_currentChannel' = NoChannel
     ELSE UNCHANGED <<Local_ws, Local_currentChannel>>
  /\ Local_last' = [op |-> "close", sock |-> i, invoked |-> None]
  /\ UNCHANGED <<Local_urlOk, Local_callback, Local_timers, Local_nSubs,
                 Local_unsubscribed, Local_hostUnsub>>
  /\ UNCHANGED notLocal

(* ------------------- LocalDataFeeds: properties ------------------------ *)

LocalOpenSockets ==
  {i \in DOMAIN Local_sockets : Local_sockets[i].readyState = OPEN}

\* the handle and the channel are set and cleared together, and the handle
\* names the socket created for the current channel
LocalHandleConsistent ==
  /\ (Local_ws = None) <=> (Local_currentChannel = NoChannel)
  /\ Local_ws # None =>
       /\ Local_ws \in DOMAIN Local_sockets
       /\ Local_sockets[Local_ws].channel = Local_currentChannel

\* C1: at most one WebSocket created by the adapter instance is OPEN, in
\* every state reachable by subscribe / unsubscribe calls and socket events.
C1_AtMostOneOpen ==
  Cardinality(LocalOpenSockets) <= 1

\* C2: subscribe for a channel B while the connection of a different channel
\* A is OPEN or CLOSING has called close() on A's socket when it returns, so
\* that socket is no longer OPEN.
C2_SubscribeClosesPrevious ==
  [][\A symbol \in LocalSymbols, period \in LocalPeriods :
       ( /\ LocalSubscribe(symbol, period)
         /\ Local_ws # None
         /\ Local_sockets[Local_ws].readyState \in {OPEN, CLOSING}
         /\ Local_currentChannel # Local_channel(symbol, period) )
       => /\ Local_sockets'[Local_ws].closeCalled
          /\ Local_sockets'[Local_ws].readyState # OPEN]_vars

\* subscribe(A) then subscribe(B), B # A, issued while A's socket was still
\* CONNECTING, and nothing else from the host
LocalScenarioAB ==
  /\ Local_nSubs = 2
  /\ Len(Local_sockets) = 2
  /\ Local_sockets[1].channel # Local_sockets[2].channel
  /\ Local_sockets[2].prev = CONNECTING
  /\ ~Local_hostUnsub

\* every socket event and the grace timer have been processed
LocalSettled ==
  /\ Local_timers = {}
  /\ \A i \in DOMAIN Local_sockets : Local_sockets[i].readyState \in {OPEN, CLOSED}

\* no socket failed to connect or was dropped by the network
LocalNoDrop ==
  \A i \in DOMAIN Local_sockets :
    Local_sockets[i].readyState = CLOSED => Local_sockets[i].closeCalled

\* C3: after subscribe(A) and subscribe(B) before A's connection opened, once
\* everything has settled exactly one connection is open, it is B's, and the
\* callback is never invoked with a message of A's connection.
C3_RapidSwitchSettlesOnB ==
  /\ [](LocalScenarioAB /\ LocalSettled /\ LocalNoDrop =>
          /\ LocalOpenSockets = {2}
          /\ Local_ws = 2
          /\ Local_currentChannel = Local_sockets[2].channel)
  /\ [][LocalScenarioAB' =>
          ~(Local_last'.op = "message" /\ Local_last'.sock = 1
            /\ Local_last'.invoked # None)]_vars

C3_Witness ==
  /\ LocalScenarioAB /\ LocalSettled /\ LocalNoDrop
  /\ Local_sockets[1].readyState = CLOSED
  /\ Local_sockets[2].readyState = OPEN
  /\ Local_last = [op |-> "message", sock |-> 2, invoked |-> 2]

\* C4: the deferred close re-checks the channel when it fires: it closes the
\* superseded connection when the current channel still differs from that
\* connection's channel, and never closes the connection of the channel that
\* is current when it fires.
C4_DeferredCloseClosesSuperseded ==
  [][\A t \in Local_timers :
       LocalTimerFire(t) =>
         /\ Local_currentChannel # Local_sockets[t.old].channel
              => Local_sockets'[t.old].readyState \in {CLOSING, CLOSED}
         /\ \A i \in DOMAIN Local_sockets :
              Local_sockets[i].channel = Local_currentChannel
                => Local_sockets'[i] = Local_sockets[i]]_vars

\* C5: unsubscribe with a channel key that differs from the current one is a
\* no-op: handle, current channel and callback are unchanged and close() is
\* called on no socket.
C5_UnsubscribeMismatchNoop ==
  [][\A symbol \in LocalSymbols, period \in LocalPeriods :
       ( /\ LocalUnsubscribe(symbol, period)
         /\ Local_currentChannel # Local_channel(symbol, period) )
       => UNCHANGED <<Local_ws, Local_currentChannel, Local_callback,
                      Local_sockets>>]_vars

C5_Witness ==
  /\ Local_last.op = "unsubscribe-skip"
  /\ Local_ws # None
  /\ Local_sockets[Local_ws].readyState = OPEN
  /\ Local_callback # None

C14_ResubscribeSwapsCallback ==
  /\ [][\A symbol \in LocalSymbols, period \in LocalPeriods :
          ( /\ LocalSubscribe(symbol, period)
            /\ Local_ws # None
            /\ Local_currentChannel = Local_channel(symbol, period)
            /\ Local_sockets[Local_ws].readyState = OPEN )
          => /\ UNCHANGED <<Local_ws, Local_currentChannel, Local_sockets, Local_timers>>
             /\ Local_callback' = Local_nSubs + 1]_vars
  /\ [][\A i \in DOMAIN Local_sockets :
          LocalWsMessage(i, TRUE) /\ i = Local_ws
            => /\ Local_callback # None
               /\ Local_last'.invoked = Local_callback]_vars
  /\ [][Local_last'.invoked # None => Local_last'.invoked = Local_callback']_vars

C14_Witness ==
  /\ Local_last = [op |-> "message", sock |-> 1, invoked |-> 2]
  /\ Len(Local_sockets) = 1
  /\ Local_nSubs = 2
  /\ Local_ws = 1

LocalNext ==
  \/ \E symbol \in LocalSymbols, period \in LocalPeriods : LocalSubscribe(symbol, period)
  \/ \E symbol \in LocalSymbols, period \in LocalPeriods : LocalUnsubscribe(symbol, period)
  \/ \E t \in Local_timers : LocalTimerFire(t)
  \/ \E i \in DOMAIN Local_sockets : LocalWsOpen(i)
  \/ \E i \in DOMAIN Local_sockets, parses \in BOOLEAN : LocalWsMessage(i, parses)
  \/ \E i \in DOMAIN Local_sockets : LocalWsClose(i)


(* ======================== CCXTDataFeeds ================================ *)

USDT == <<"U", "S", "D", "T">>

\* SymbolInfo values the host passes; <<>> is an absent shortName / priceCurrency
CCXTSymbols ==
  { [ticker |-> <<"B", "-", "U", "S", "D", "T">>, shortName |-> <<>>, priceCurrency |-> <<>>],
    [ticker |-> <<"E", "U", "S", "D", "T">>, shortName |-> <<>>, priceCurrency |-> <<>>] }

CCXTPeriods ==
  { [multiplier |-> 1, timespan |-> "minute"] }

Includes(s, c) == \E i \in DOMAIN s : s[i] = c

\* String.prototype.replace(c, d) with a string pattern: the first occurrence
ReplaceFirst(s, c, d) ==
  IF Includes(s, c)
  THEN LET i == CHOOSE k \in DOMAIN s : s[k] = c /\ \A j \in 1..(k - 1) : s[j] # c
       IN [s EXCEPT ![i] = d]
  ELSE s

EndsWith(s, suffix) ==
  /\ Len(s) >= Len(suffix)
  /\ SubSeq(s, Len(s) - Len(suffix) + 1, Len(s)) = suffix

\* ticker.replace(/USD[T]?$/, '')
StripUsd(s) ==
  IF EndsWith(s, USDT) THEN SubSeq(s, 1, Len(s) - 4)
  ELSE IF EndsWith(s, <<"U", "S", "D">>) THEN SubSeq(s, 1, Len(s) - 3)
  ELSE s

ToUpperChar(c) ==
  IF c = "u" THEN "U" ELSE IF c = "s" THEN "S" ELSE IF c = "d" THEN "D"
  ELSE IF c = "t" THEN "T" ELSE c

ToUpperCase(s) == [i \in DOMAIN s |-> ToUpperChar(s[i])]

CCXT_convertTickerToSymbol(symbol) ==
  IF Includes(symbol.ticker, "/") THEN symbol.ticker
  ELSE IF Includes(symbol.ticker, "-") THEN ReplaceFirst(symbol.ticker, "-", "/")
  ELSE LET base == IF symbol.shortName # <<>> THEN symbol.shortName
                   ELSE StripUsd(symbol.ticker)
           quote == IF ToUpperCase(symbol.priceCurrency) # <<>>
                    THEN ToUpperCase(symbol.priceCurrency) ELSE USDT
       IN base \o <<"/">> \o quote

\* a conversion whose default keeps the requested multiplier
CCXT_convertPeriodToTimeframe_keep(period) ==
  CASE period.timespan = "minute" -> <<period.multiplier, "m">>
    [] period.timespan = "hour" -> <<period.multiplier, "h">>
    [] period.timespan = "day" -> <<period.multiplier, "d">>
    [] period.timespan = "week" -> <<period.multiplier, "w">>
    [] period.timespan = "month" -> <<period.multiplier, "M">>
    [] OTHER -> <<period.multiplier, "m">>

CCXT_convertPeriodToTimeframe(period) ==
  CASE period.timespan = "minute" -> <<period.multiplier, "m">>
    [] period.timespan = "hour" -> <<period.multiplier, "h">>
    [] period.timespan = "day" -> <<period.multiplier, "d">>
    [] period.timespan = "week" -> <<period.multiplier, "w">>
    [] period.timespan = "month" -> <<period.multiplier, "M">>
    [] OTHER -> <<1, "m">>

\* the upstream symbol and timeframe a subscribe call captures in its closures
CCXT_target(symbol, period) ==
  [symbol |-> CCXT_convertTickerToSymbol(symbol),
   timeframe |-> CCXT_convertPeriodToTimeframe(period)]

\* what an awaited fetchOHLCV / watchOHLCV settles with: it rejects, resolves
\* with no candle, or resolves with candles whose last one has timestamp ts
UpstreamResults ==
  {[kind |-> "throw", ts |-> 0], [kind |-> "empty", ts |-> 0]}
    \cup {[kind |-> "candles", ts |-> t] : t \in 1..MaxTs}

\* the instance fields an operation reads and writes, with the timers and
\* the requests in flight, as one value (this._ws is never assigned)
CCXTState ==
  [currentCallback |-> CCXT_currentCallback,
   pollingInterval |-> CCXT_pollingInterval,
   lastTimestamp |-> CCXT_lastTimestamp,
   timers |-> CCXT_timers, fetches |-> CCXT_fetches]

\* clearInterval(id)
ClearInterval(timers, id) == [timers EXCEPT ![id].active = FALSE]

\* unsubscribe(symbol, period): the arguments are only logged
CCXT_unsubscribe(st, symbol, period) ==
  [st EXCEPT
     !.currentCallback = None,
     !.lastTimestamp = 0,
     !.timers = IF st.pollingInterval # None
                THEN ClearInterval(st.timers, st.pollingInterval) ELSE @,
     !.pollingInterval = None]

\* a fetchLatest that arms a further timer each time it runs
CCXT_fetchLatest_rearm(st, callback) ==
  IF st.currentCallback = None THEN st
  ELSE [st EXCEPT !.fetches =
          @ (+) SetToBag({[callback |-> callback, since |-> st.lastTimestamp]}),
                  !.timers = Append(@, [callback |-> callback, active |-> TRUE])]

\* fetchLatest up to its await: returns at once without a current callback
CCXT_fetchLatest(st, callback) ==
  IF st.currentCallback = None THEN st
  ELSE [st EXCEPT !.fetches =
          @ (+) SetToBag({[callback |-> callback, since |-> st.lastTimestamp]})]

\* _subscribePolling(symbol, timeframe, callback)
CCXT_subscribePolling(st, callback) ==
  LET st1 == IF st.pollingInterval # None
             THEN [st EXCEPT !.timers = ClearInterval(@, st.pollingInterval)]
             ELSE st
      st2 == CCXT_fetchLatest(st1, callback)
  IN [st2 EXCEPT
        !.timers = Append(@, [callback |-> callback, active |-> TRUE]),
        !.pollingInterval = Len(st2.timers) + 1]

\* what the current callback has been handed since its subscribe: the last
\* two polled timestamps, the last timestamp by either path, the last
\* streamed one, and whether the stream has so far been ordered
CCXT_noneSeen ==
  [polled |-> 0, prev |-> 0, bar |-> 0, streamed |-> 0, ordered |-> TRUE]

\* callback(klineData) with timestamp ts, reached from the loop or the poll
CCXT_deliver(seen, current, op, callback, ts) ==
  IF callback = None \/ callback # current THEN seen
  ELSE IF op = "fetch"
       THEN [seen EXCEPT !.polled = ts, !.prev = seen.polled, !.bar = ts]
       ELSE [seen EXCEPT !.streamed = ts, !.bar = ts,
                         !.ordered = seen.ordered /\ ts >= seen.streamed]

CCXTInit ==
  /\ CCXT_hasWatch \in BOOLEAN
  /\ CCXT_currentCallback = None
  /\ CCXT_pollingInterval = None
  /\ CCXT_lastTimestamp = 0
  /\ CCXT_subs = <<>>
  /\ CCXT_loops = <<>>
  /\ CCXT_timers = <<>>
  /\ CCXT_fetches = EmptyBag
  /\ CCXT_last = [op |-> "init", invoked |-> None, ts |-> 0]
  /\ CCXT_seen = CCXT_noneSeen

CCXTAssign(st) ==
  /\ CCXT_currentCallback' = st.currentCallback
  /\ CCXT_pollingInterval' = st.pollingInterval
  /\ CCXT_lastTimestamp' = st.lastTimestamp
  /\ CCXT_timers' = st.timers
  /\ CCXT_fetches' = st.fetches

\* subscribe(symbol, period, callback)
CCXTSubscribe(symbol, period) ==
  LET callback == Len(CCXT_subs) + 1
      st1 == [CCXT_unsubscribe(CCXTState, symbol, period)
                EXCEPT !.currentCallback = callback]
  IN
  /\ Len(CCXT_subs) < MaxCCXTSubs
  /\ CCXT_subs' = Append(CCXT_subs, CCXT_target(symbol, period))
  /\ IF CCXT_hasWatch
     THEN \* _subscribeWebSocket: watchHandler runs up to its first await
          /\ CCXT_loops' = Append(CCXT_loops, [callback |-> callback, pc |-> "watch"])
          /\ CCXTAssign(st1)
     ELSE /\ CCXTAssign(CCXT_subscribePolling(st1, callback))
          /\ UNCHANGED CCXT_loops
  /\ CCXT_last' = [op |-> "subscribe", invoked |-> None, ts |-> 0]
  /\ CCXT_seen' = CCXT_noneSeen
  /\ UNCHANGED CCXT_hasWatch
  /\ UNCHANGED notCCXT

\* the host calls unsubscribe(symbol, period)
CCXTUnsubscribe(symbol, period) ==
  /\ CCXTAssign(CCXT_unsubscribe(CCXTState, symbol, period))
  /\ CCXT_last' = [op |-> "unsubscribe", invoked |-> None, ts |-> 0]
  /\ CCXT_seen' = CCXT_noneSeen
  /\ UNCHANGED <<CCXT_hasWatch, CCXT_subs, CCXT_loops>>
  /\ UNCHANGED notCCXT

\* the awaited watchOHLCV of loop l settles
CCXTWatchSettle(l, result) ==
  /\ l \in DOMAIN CCXT_loops
  /\ CCXT_loops[l].pc = "watch"
  /\ IF result.kind = "throw"
     THEN \* catch: fall back to polling with the loop's own arguments
          /\ CCXT_loops' = [CCXT_loops EXCEPT ![l].pc = "done"]
          /\ CCXTAssign(CCXT_subscribePolling(CCXTState, CCXT_loops[l].callback))
          /\ CCXT_last' = [op |-> "watch-error", invoked |-> None, ts |-> 0]
          /\ UNCHANGED CCXT_seen
     ELSE /\ CCXT_loops' = [CCXT_loops EXCEPT ![l].pc = "sleep"]
          /\ CCXT_last' = IF result.kind = "empty"
                          THEN [op |-> "watch", invoked |-> None, ts |-> 0]
                          ELSE [op |-> "watch", invoked |-> CCXT_loops[l].callback,
                                ts |-> result.ts]
          /\ CCXT_seen' = CCXT_deliver(CCXT_seen, CCXT_currentCallback, "watch",
                                       CCXT_last'.invoked, result.ts)
          /\ UNCHANGED <<CCXT_currentCallback, CCXT_pollingInterval,
                         CCXT_lastTimestamp, CCXT_timers, CCXT_fetches>>
  /\ UNCHANGED <<CCXT_hasWatch, CCXT_subs>>
  /\ UNCHANGED notCCXT

\* the 100 ms pause of loop l ends and the while condition is evaluated
CCXTLoopWake(l) ==
  /\ l \in DOMAIN CCXT_loops
  /\ CCXT_loops[l].pc = "sleep"
  /\ CCXT_loops' = [CCXT_loops EXCEPT
                      ![l].pc = IF CCXT_currentCallback # None THEN "watch" ELSE "done"]
  /\ CCXT_last' = [op |-> "wake", invoked |-> None, ts |-> 0]
  /\ UNCHANGED CCXT_seen
  /\ UNCHANGED <<CCXT_hasWatch, CCXT_currentCallback, CCXT_pollingInterval,
                 CCXT_lastTimestamp, CCXT_subs, CCXT_timers, CCXT_fetches>>
  /\ UNCHANGED notCCXT

\* the setInterval timer t ticks: fetchLatest()
CCXTTimerTick(t) ==
  /\ t \in DOMAIN CCXT_timers
  /\ CCXT_timers[t].active
  /\ BagCardinality(CCXT_fetches) < MaxInflight
  /\ CCXTAssign(CCXT_fetchLatest(CCXTState, CCXT_timers[t].callback))
  /\ CCXT_last' = [op |-> "tick", invoked |-> None, ts |-> 0]
  /\ UNCHANGED CCXT_seen
  /\ UNCHANGED <<CCXT_hasWatch, CCXT_subs, CCXT_loops>>
  /\ UNCHANGED notCCXT

\* a poll that hands over every candle it is given
CCXT_isNewer_always(lastTimestamp, timestamp) == TRUE

\* fetchLatest: the candle is delivered when nothing was delivered before or
\* its timestamp is larger than the last delivered one
CCXT_isNewer(lastTimestamp, timestamp) ==
  lastTimestamp = 0 \/ timestamp > lastTimestamp

\* the awaited fetchOHLCV of the fetchLatest invocation f settles
CCXTFetchSettle(f, result) ==
  /\ BagIn(f, CCXT_fetches)
  /\ CCXT_fetches' = CCXT_fetches (-) SetToBag({f})
  /\ IF result.kind = "candles"
        /\ CCXT_isNewer(CCXT_lastTimestamp, result.ts)
     THEN /\ CCXT_lastTimestamp' = result.ts
          /\ CCXT_last' = [op |-> "fetch", invoked |-> f.callback, ts |-> result.ts]
     ELSE /\ UNCHANGED CCXT_lastTimestamp
          /\ CCXT_last' = [op |-> "fetch", invoked |-> None, ts |-> 0]
  /\ CCXT_seen' = CCXT_deliver(CCXT_seen, CCXT_currentCallback, "fetch",
                               CCXT_last'.invoked, result.ts)
  /\ UNCHANGED <<CCXT_hasWatch, CCXT_currentCallback, CCXT_pollingInterval,
                 CCXT_subs, CCXT_loops, CCXT_timers>>
  /\ UNCHANGED notCCXT

(* -------------------- CCXTDataFeeds: properties ------------------------ *)

CCXTActiveLoops == {l \in DOMAIN CCXT_loops : CCXT_loops[l].pc # "done"}

CCXTActiveTimers == {t \in DOMAIN CCXT_timers : CCXT_timers[t].active}

\* C6: unsubscribe with a symbol/period that does not match the active
\* subscription is a no-op: the polling timer or streaming loop keeps
\* running, the stored callback and the last-delivered timestamp are unchanged.
C6_UnsubscribeMismatchNoop ==
  [][\A symbol \in CCXTSymbols, period \in CCXTPeriods :
       ( /\ CCXTUnsubscribe(symbol, period)
         /\ CCXT_currentCallback # None
         /\ CCXT_target(symbol, period) # CCXT_subs[CCXT_currentCallback] )
       => UNCHANGED <<CCXT_currentCallback, CCXT_lastTimestamp,
                      CCXT_pollingInterval, CCXT_timers, CCXT_loops>>]_vars

\* C8: after unsubscribe has returned and until the next subscribe, no
\* polling timer is scheduled and no callback is invoked, whatever requests
\* were in flight and however they settle.
C8_UnsubscribeStopsDelivery ==
  /\ [](CCXT_currentCallback = None => CCXTActiveTimers = {})
  /\ [][CCXT_currentCallback = None => CCXT_last'.invoked = None]_vars

\* C9: a new subscribe invalidates the previous one: once subscribe(B, cbB)
\* has returned, only cbB is invoked, and the streaming loop started for A
\* does not go round again.
C9_SubscribeInvalidatesPrevious ==
  [][CCXT_currentCallback # None =>
       /\ CCXT_last'.invoked # None => CCXT_last'.invoked = CCXT_currentCallback
       /\ \A l \in DOMAIN CCXT_loops :
            CCXT_loops[l].pc = "sleep" /\ CCXT_loops'[l].pc = "watch"
              => CCXT_loops[l].callback = CCXT_currentCallback]_vars

\* C10: at most one live-delivery mechanism (one streaming loop or one
\* polling timer) is active per adapter instance.
C10_AtMostOneMechanism ==
  Cardinality(CCXTActiveLoops) + Cardinality(CCXTActiveTimers) <= 1

\* C15: polling, within one subscription: the timestamps passed to the
\* callback are strictly increasing, however the overlapping fetchOHLCV
\* calls complete.
C15_PollingStrictlyIncreasing ==
  [][( /\ CCXT_last'.op = "fetch"
       /\ CCXT_last'.invoked # None
       /\ CCXT_last'.invoked = CCXT_currentCallback )
     => CCXT_last'.ts > CCXT_seen.polled]_vars

C15_Witness ==
  /\ CCXT_last.op = "fetch"
  /\ CCXT_last.invoked = CCXT_currentCallback
  /\ CCXT_currentCallback # None
  /\ CCXT_seen.prev > 0
  /\ CCXT_seen.polled > CCXT_seen.prev
  /\ BagCardinality(CCXT_fetches) >= 1

\* C16: within one channel's lifetime the bars handed to its callback are
\* non-decreasing in timestamp when the upstream stream is ordered,
\* including when delivery moves from streaming to polling after an error.
C16_LifetimeNonDecreasing ==
  [][( /\ CCXT_seen'.ordered
       /\ CCXT_last'.invoked # None
       /\ CCXT_last'.invoked = CCXT_currentCallback )
     => CCXT_last'.ts >= CCXT_seen.bar]_vars

\* C18: without an unsubscribe, the first candle the upstream returns for a
\* subscription is handed to its callback: a request of the current
\* subscription that settles with a candle invokes the callback when it had
\* not been invoked before.
C18_FirstCandleDelivered ==
  /\ [][\A f \in BagToSet(CCXT_fetches), result \in UpstreamResults :
          ( /\ CCXTFetchSettle(f, result)
            /\ result.kind = "candles"
            /\ f.callback = CCXT_currentCallback
            /\ CCXT_seen.bar = 0 )
          => CCXT_last'.invoked = f.callback]_vars
  /\ [][\A l \in DOMAIN CCXT_loops, result \in UpstreamResults :
          ( /\ CCXTWatchSettle(l, result)
            /\ result.kind = "candles"
            /\ CCXT_loops[l].callback = CCXT_currentCallback
            /\ CCXT_seen.bar = 0 )
          => CCXT_last'.invoked = CCXT_loops[l].callback]_vars

\* C34: the last-delivered timestamp belongs to one subscription: a
\* fetchOHLCV result that completes after its subscription was ended or
\* superseded leaves the last-delivered timestamp as it is, so that the
\* next subscription starts from none.
C34_StaleFetchKeepsTimestamp ==
  [][\A f \in BagToSet(CCXT_fetches), result \in UpstreamResults :
       ( /\ CCXTFetchSettle(f, result)
         /\ f.callback # CCXT_currentCallback )
       => CCXT_lastTimestamp' = CCXT_lastTimestamp]_vars

CCXTNext ==
  \/ \E symbol \in CCXTSymbols, period \in CCXTPeriods : CCXTSubscribe(symbol, period)
  \/ \E symbol \in CCXTSymbols, period \in CCXTPeriods : CCXTUnsubscribe(symbol, period)
  \/ \E l \in DOMAIN CCXT_loops, result \in UpstreamResults : CCXTWatchSettle(l, result)
  \/ \E l \in DOMAIN CCXT_loops : CCXTLoopWake(l)
  \/ \E t \in DOMAIN CCXT_timers : CCXTTimerTick(t)
  \/ \E f \in BagToSet(CCXT_fetches), result \in UpstreamResults : CCXTFetchSettle(f, result)

(* ==================== OKXDataFeeds: conversions ======================== *)

\* const supportedPeriods: Record<string, number[]>
OKX_supportedPeriods ==
  [minute |-> <<1, 3, 5, 15, 30>>, hour |-> <<1, 2, 4, 6, 12>>,
   day |-> <<1>>, week |-> <<1>>, month |-> <<1>>]

RECURSIVE OKX_closest(_, _, _)
\* a search that stops at the first supported value instead of the last
OKX_closest_first(supportedValues, multiplier, i) ==
  IF multiplier >= supportedValues[1] THEN supportedValues[1] ELSE multiplier

\* for (let i = supportedValues.length - 1; i >= 0; i--): the first value,
\* from the largest down, that the multiplier reaches; else the multiplier
OKX_closest(supportedValues, multiplier, i) ==
  IF i < 1 THEN multiplier
  ELSE IF multiplier >= supportedValues[i] THEN supportedValues[i]
  ELSE OKX_closest(supportedValues, multiplier, i - 1)

\* _convertPeriodToBar(period)
OKX_convertPeriodToBar(period) ==
  LET supportedValues ==
        IF period.timespan \in DOMAIN OKX_supportedPeriods
        THEN OKX_supportedPeriods[period.timespan]
        ELSE OKX_supportedPeriods["minute"]
      found == OKX_closest(supportedValues, period.multiplier, Len(supportedValues))
      actualMultiplier == IF found < supportedValues[1] THEN supportedValues[1] ELSE found
  IN CASE period.timespan = "minute" -> <<actualMultiplier, "m">>
       [] period.timespan = "hour" -> <<actualMultiplier, "H">>
       [] period.timespan = "day" -> <<actualMultiplier, "D">>
       [] period.timespan = "week" -> <<actualMultiplier, "W">>
       [] period.timespan = "month" -> <<actualMultiplier, "M">>
       [] OTHER -> <<1, "m">>

(* ==================== OKXDataFeeds: live connection ==================== *)

\* SymbolInfo values the host passes; <<>> is an absent shortName / priceCurrency
OKXSymbols ==
  { [ticker |-> <<"B", "-", "U", "S", "D", "T">>, shortName |-> <<>>,
     priceCurrency |-> <<>>, market |-> "crypto"],
    [ticker |-> <<"X", ".", "E", "U", "S", "D">>, shortName |-> <<>>,
     priceCurrency |-> <<"u", "s", "d", "t">>, market |-> "crypto"],
    [ticker |-> <<"E", "U", "S", "D", "T">>, shortName |-> <<>>,
     priceCurrency |-> <<>>, market |-> "spot"] }

OKXPeriods ==
  { [multiplier |-> 1, timespan |-> "minute"], [multiplier |-> 1, timespan |-> "hour"] }

\* ticker.replace(/^X\./, '')
StripXDot(s) ==
  IF Len(s) >= 2 /\ SubSeq(s, 1, 2) = <<"X", ".">> THEN SubSeq(s, 3, Len(s)) ELSE s

\* ticker.replace(/USD$/, '') and ticker.replace(/USDT$/, '')
StripSuffix(s, suffix) ==
  IF EndsWith(s, suffix) THEN SubSeq(s, 1, Len(s) - Len(suffix)) ELSE s

\* a conversion that rebuilds the id of a ticker that already has a hyphen
OKX_convertTickerFormat_rebuild(ticker, quoteCurrency) ==
  LET parts == StripSuffix(StripSuffix(StripXDot(ticker), <<"U", "S", "D">>), USDT)
  IN parts \o <<"-">> \o quoteCurrency

\* _convertTickerFormat(ticker, quoteCurrency)
OKX_convertTickerFormat(ticker, quoteCurrency) ==
  IF Includes(ticker, "-") THEN ticker
  ELSE LET parts == StripSuffix(StripSuffix(StripXDot(ticker), <<"U", "S", "D">>), USDT)
       IN parts \o <<"-">> \o quoteCurrency

\* symbol.priceCurrency?.toUpperCase() || 'USDT'
OKX_quote(symbol) ==
  IF ToUpperCase(symbol.priceCurrency) # <<>> THEN ToUpperCase(symbol.priceCurrency)
  ELSE USDT

\* subscribe: the instrument id, rebuilt from the symbol when it has no hyphen
OKX_instId(symbol) ==
  LET instId == OKX_convertTickerFormat(symbol.ticker, OKX_quote(symbol))
  IN IF Includes(instId, "-") THEN instId
     ELSE (IF symbol.shortName # <<>> THEN symbol.shortName ELSE <<"B", "T", "C">>)
            \o <<"-">> \o OKX_quote(symbol)

\* const channel = `candles${bar}`
OKX_channel(period) == <<"candles">> \o OKX_convertPeriodToBar(period)

\* the arg of a subscribe / unsubscribe frame and of a bar message
OKX_arg(symbol, period) ==
  [channel |-> OKX_channel(period), instId |-> OKX_instId(symbol)]

OKXArgs == {OKX_arg(symbol, period) : symbol \in OKXSymbols, period \in OKXPeriods}

\* what the server can push: acknowledgments, errors, bar messages whose
\* candles have at least six fields (or not), and text that is not JSON
OKXMessages ==
  {[kind |-> k, arg |-> [channel |-> <<>>, instId |-> <<>>]] :
      k \in {"subscribe", "error", "garbage"}}
  \cup {[kind |-> k, arg |-> a] : k \in {"bar", "short-bar"}, a \in OKXArgs}

\* WebSocket.send(data): throws while CONNECTING, queues the frame while
\* OPEN, and discards it once the socket is CLOSING or CLOSED
WsSendThrows(sockets, i) == sockets[i].readyState = CONNECTING

NoFrame == [op |-> "none", arg |-> [channel |-> <<>>, instId |-> <<>>]]

\* this._ws?.send(frame): the frame that goes out on socket ws, or NoFrame
WsSend(sockets, ws, frame) ==
  IF ws # None /\ sockets[ws].readyState = OPEN THEN frame ELSE NoFrame

\* a replacement that leaves the socket held open
WsCloseOpt_skip(sockets, ws) == sockets

\* this._ws?.close()
WsCloseOpt(sockets, ws) == IF ws = None THEN sockets ELSE WsClose(sockets, ws)

OKXInit ==
  /\ OKX_prevSymbolMarket = ""
  /\ OKX_ws = None
  /\ OKX_currentChannel = NoChannel
  /\ OKX_sockets = <<>>
  /\ OKX_subs = <<>>
  /\ OKX_last = [op |-> "init", sock |-> None, invoked |-> None, sent |-> NoFrame]

\* subscribe(symbol, period, callback)
OKXSubscribe(symbol, period) ==
  LET arg == OKX_arg(symbol, period)
      callback == Len(OKX_subs) + 1
      frame == [op |-> "subscribe", arg |-> arg]
  IN
  /\ Len(OKX_subs) < MaxOKXSubs
  /\ OKX_subs' = Append(OKX_subs, arg)
  /\ IF \/ OKX_prevSymbolMarket # symbol.market
        \/ OKX_ws = None
        \/ OKX_sockets[OKX_ws].readyState # OPEN
     THEN \* close the socket held and connect; the handlers keep this call's
          \* channel, instrument and callback
          /\ OKX_sockets' = Append(WsCloseOpt(OKX_sockets, OKX_ws),
                                   [readyState |-> CONNECTING, closeCalled |-> FALSE,
                                    arg |-> arg, pendingCallback |-> callback])
          /\ OKX_ws' = Len(OKX_sockets) + 1
          /\ OKX_currentChannel' = arg.channel
          /\ OKX_last' = [op |-> "subscribe", sock |-> OKX_ws', invoked |-> None,
                          sent |-> NoFrame]
     ELSE \* connected: ask for the new channel on the socket held
          IF OKX_currentChannel # NoChannel
          THEN /\ OKX_currentChannel' = arg.channel
               /\ OKX_last' = [op |-> "subscribe", sock |-> OKX_ws, invoked |-> None,
                               sent |-> WsSend(OKX_sockets, OKX_ws, frame)]
               /\ UNCHANGED <<OKX_sockets, OKX_ws>>
          ELSE /\ OKX_last' = [op |-> "subscribe", sock |-> OKX_ws, invoked |-> None,
                               sent |-> NoFrame]
               /\ UNCHANGED <<OKX_sockets, OKX_ws, OKX_currentChannel>>
  /\ OKX_prevSymbolMarket' = symbol.market
  /\ UNCHANGED notOKX

\* unsubscribe(symbol, period)
OKXUnsubscribe(symbol, period) ==
  /\ OKX_last' =
       [op |-> "unsubscribe", sock |-> OKX_ws, invoked |-> None,
        sent |-> IF OKX_ws # None /\ OKX_sockets[OKX_ws].readyState = OPEN
                 THEN WsSend(OKX_sockets, OKX_ws,
                             [op |-> "unsubscribe", arg |-> OKX_arg(symbol, period)])
                 ELSE NoFrame]
  /\ UNCHANGED <<OKX_prevSymbolMarket, OKX_ws, OKX_currentChannel, OKX_sockets,
                 OKX_subs>>
  /\ UNCHANGED notOKX

\* socket i opens: onopen sends the subscribe frame of its subscribe call
\* through this._ws
OKXWsOpen(i) ==
  /\ i \in DOMAIN OKX_sockets
  /\ OKX_sockets[i].readyState = CONNECTING
  /\ OKX_sockets' = [OKX_sockets EXCEPT ![i].readyState = OPEN]
  /\ OKX_last' = [op |-> "open", sock |-> i, invoked |-> None,
                  sent |-> WsSend(OKX_sockets', OKX_ws,
                                  [op |-> "subscribe", arg |-> OKX_sockets[i].arg])]
  /\ UNCHANGED <<OKX_prevSymbolMarket, OKX_ws, OKX_currentChannel, OKX_subs>>
  /\ UNCHANGED notOKX

\* onmessage of socket i: the callback it invokes, or None
OKX_onmessage(socket, message) ==
  IF message.kind = "bar" /\ message.arg = socket.arg
  THEN socket.pendingCallback
  ELSE None

\* a message arrives on the open socket i
OKXWsMessage(i, message) ==
  /\ i \in DOMAIN OKX_sockets
  /\ OKX_sockets[i].readyState = OPEN
  /\ OKX_last' = [op |-> "message", sock |-> i,
                  invoked |-> OKX_onmessage(OKX_sockets[i], message), sent |-> NoFrame]
  /\ UNCHANGED <<OKX_prevSymbolMarket, OKX_ws, OKX_currentChannel, OKX_sockets,
                 OKX_subs>>
  /\ UNCHANGED notOKX

\* socket i closes (closing handshake done, or the connection dropped)
OKXWsClose(i) ==
  /\ i \in DOMAIN OKX_sockets
  /\ OKX_sockets[i].readyState # CLOSED
  /\ OKX_sockets' = [OKX_sockets EXCEPT ![i].readyState = CLOSED]
  /\ OKX_last' = [op |-> "close", sock |-> i, invoked |-> None, sent |-> NoFrame]
  /\ UNCHANGED <<OKX_prevSymbolMarket, OKX_ws, OKX_currentChannel, OKX_subs>>
  /\ UNCHANGED notOKX

\* C11: after subscribe(B, cbB) was called while the connection opened for
\* channel A is still open, every bar message for B's channel and instrument
\* invokes cbB, and bar messages for the superseded channel A invoke no
\* callback.
C11_BarsFollowCurrentChannel ==
  [][\A i \in DOMAIN OKX_sockets, message \in OKXMessages :
       ( /\ OKXWsMessage(i, message)
         /\ message.kind = "bar"
         /\ OKX_sockets[i].pendingCallback < Len(OKX_subs) )
       => OKX_last'.invoked =
            IF message.arg = OKX_subs[Len(OKX_subs)] THEN Len(OKX_subs) ELSE None]_vars

OKXNext ==
  \/ \E symbol \in OKXSymbols, period \in OKXPeriods : OKXSubscribe(symbol, period)
  \/ \E symbol \in OKXSymbols, period \in OKXPeriods : OKXUnsubscribe(symbol, period)
  \/ \E i \in DOMAIN OKX_sockets : OKXWsOpen(i)
  \/ \E i \in DOMAIN OKX_sockets, message \in OKXMessages : OKXWsMessage(i, message)
  \/ \E i \in DOMAIN OKX_sockets : OKXWsClose(i)

(* ==================== DefaultDatafeed: live connection ================= *)

USD == <<"U", "S", "D">>

\* SymbolInfo values the host passes
DefSymbols ==
  { [ticker |-> <<"X", ".", "B", "U", "S", "D">>, market |-> "crypto"],
    [ticker |-> <<"E", "-", "U", "S", "D">>, market |-> "crypto"],
    [ticker |-> <<"E", "U", "S", "D", "T">>, market |-> "fx"] }

DefPeriods == { [multiplier |-> 1, timespan |-> "minute"] }

\* the positions at which 'USD' occurs in s, as String.split finds them:
\* left to right, without overlap
RECURSIVE UsdAt(_, _)
UsdAt(s, from) ==
  IF from + 2 > Len(s) THEN <<>>
  ELSE IF SubSeq(s, from, from + 2) = USD THEN <<from>> \o UsdAt(s, from + 3)
  ELSE UsdAt(s, from + 1)

\* _convertTickerFormat(ticker)
Def_convertTickerFormat(ticker) ==
  IF Includes(ticker, "-") THEN ticker
  ELSE LET stripped == StripXDot(ticker)
           at == UsdAt(stripped, 1)
       IN IF Len(at) + 1 = 2
          THEN SubSeq(stripped, 1, at[1] - 1) \o <<"-">> \o USD
          ELSE ticker

DefTickers == {Def_convertTickerFormat(symbol.ticker) : symbol \in DefSymbols}

\* the entries of a server message: authentication acknowledgments, other
\* status entries, and per-minute aggregates (ev 'XA') of a pair
DefEntries ==
  {[kind |-> k, pair |-> <<>>] : k \in {"auth_success", "auth_failed", "status"}}
  \cup {[kind |-> "XA", pair |-> t] : t \in DefTickers}

\* a server message: one entry, an array of entries, or (<<>>) text that
\* JSON.parse rejects
DefMessages ==
  {<<>>} \cup {<<e>> : e \in DefEntries} \cup {<<e, f>> : e, f \in DefEntries}

DefFrame(action, params) == [action |-> action, params |-> params]

\* what a handler run has done so far
DefRun(sockets) == [sockets |-> sockets, sent |-> {}, invoked |-> {}, thrown |-> "none"]

\* an authentication failure that is only logged
Def_authFailed_ignore(run, i, ws) ==
  [run EXCEPT !.sockets = [@ EXCEPT ![i].failed = TRUE]]

\* data.status === 'auth_failed': this._ws?.close()
Def_authFailed(run, i, ws) ==
  [run EXCEPT !.sockets = WsCloseOpt([@ EXCEPT ![i].failed = TRUE], ws)]

\* authentication acknowledged: the pending subscription is sent once
Def_authSuccess(run, i, ws) ==
  LET acked == [run EXCEPT !.sockets = [@ EXCEPT ![i].acked = TRUE]]
  IN IF run.sockets[i].isAuthenticated THEN acked
     ELSE LET frame == DefFrame("subscribe", run.sockets[i].pendingSubscription)
              marked == [acked EXCEPT !.sockets = [@ EXCEPT ![i].isAuthenticated = TRUE]]
          IN IF ws # None /\ WsSendThrows(marked.sockets, ws)
             THEN [marked EXCEPT !.thrown = "caught"]
             ELSE [marked EXCEPT !.sent = @ \cup ({WsSend(marked.sockets, ws, frame)}
                                                    \ {NoFrame})]

\* onmessage of socket i: for (const data of messages) { ... }
RECURSIVE Def_onmessage(_, _, _, _)
Def_onmessage(run, i, ws, messages) ==
  IF messages = <<>> \/ run.thrown # "none" THEN run
  ELSE LET data == Head(messages)
       IN CASE data.kind = "auth_failed" -> Def_authFailed(run, i, ws)
            [] data.kind = "auth_success" ->
                 Def_onmessage(Def_authSuccess(run, i, ws), i, ws, Tail(messages))
            [] data.kind = "status" -> Def_onmessage(run, i, ws, Tail(messages))
            [] OTHER ->
                 Def_onmessage(
                   IF data.pair = run.sockets[i].pendingSubscription
                   THEN [run EXCEPT !.invoked = @ \cup {run.sockets[i].callback}]
                   ELSE run,
                   i, ws, Tail(messages))

DefInit ==
  /\ Def_prevSymbolMarket = ""
  /\ Def_ws = None
  /\ Def_sockets = <<>>
  /\ Def_nSubs = 0
  /\ Def_last = [op |-> "init", sock |-> None, to |-> None, sent |-> {},
                 invoked |-> {}, thrown |-> "none"]

\* subscribe(symbol, period, callback)
DefSubscribe(symbol, period) ==
  LET ticker == Def_convertTickerFormat(symbol.ticker)
      callback == Def_nSubs + 1
  IN
  /\ Def_nSubs < MaxDefSubs
  /\ Def_nSubs' = Def_nSubs + 1
  /\ IF \/ Def_prevSymbolMarket # symbol.market
        \/ Def_ws = None
        \/ Def_sockets[Def_ws].readyState # OPEN
     THEN /\ Def_sockets' = Append(WsCloseOpt(Def_sockets, Def_ws),
                                   [readyState |-> CONNECTING, closeCalled |-> FALSE,
                                    pendingSubscription |-> ticker,
                                    callback |-> callback, isAuthenticated |-> FALSE,
                                    acked |-> FALSE, failed |-> FALSE])
          /\ Def_ws' = Len(Def_sockets) + 1
          /\ Def_last' = [op |-> "subscribe", sock |-> Def_ws', to |-> None,
                          sent |-> {}, invoked |-> {}, thrown |-> "none"]
     ELSE \* connected: the subscribe frame goes out at once
          /\ Def_last' = [op |-> "subscribe", sock |-> Def_ws, to |-> Def_ws,
                          sent |-> {WsSend(Def_sockets, Def_ws,
                                           DefFrame("subscribe", ticker))} \ {NoFrame},
                          invoked |-> {},
                          thrown |-> IF WsSendThrows(Def_sockets, Def_ws)
                                     THEN "uncaught" ELSE "none"]
          /\ UNCHANGED <<Def_sockets, Def_ws>>
  /\ Def_prevSymbolMarket' = symbol.market
  /\ UNCHANGED notDef

\* unsubscribe(symbol, period)
DefUnsubscribe(symbol, period) ==
  /\ Def_last' =
       IF Def_ws # None /\ Def_sockets[Def_ws].readyState = OPEN
       THEN [op |-> "unsubscribe", sock |-> Def_ws, to |-> Def_ws,
             sent |-> {WsSend(Def_sockets, Def_ws,
                              DefFrame("unsubscribe",
                                       Def_convertTickerFormat(symbol.ticker)))}
                      \ {NoFrame},
             invoked |-> {},
             thrown |-> IF WsSendThrows(Def_sockets, Def_ws) THEN "uncaught" ELSE "none"]
       ELSE [op |-> "unsubscribe", sock |-> Def_ws, to |-> None, sent |-> {},
             invoked |-> {}, thrown |-> "none"]
  /\ UNCHANGED <<Def_prevSymbolMarket, Def_ws, Def_sockets, Def_nSubs>>
  /\ UNCHANGED notDef

\* socket i opens: onopen sends the authentication frame through this._ws
DefWsOpen(i) ==
  /\ i \in DOMAIN Def_sockets
  /\ Def_sockets[i].readyState = CONNECTING
  /\ Def_sockets' = [Def_sockets EXCEPT ![i].readyState = OPEN]
  /\ Def_last' = [op |-> "open", sock |-> i, to |-> Def_ws,
                  sent |-> {WsSend(Def_sockets', Def_ws, DefFrame("auth", <<>>))}
                           \ {NoFrame},
                  invoked |-> {},
                  thrown |-> IF Def_ws # None /\ WsSendThrows(Def_sockets', Def_ws)
                             THEN "uncaught" ELSE "none"]
  /\ UNCHANGED <<Def_prevSymbolMarket, Def_ws, Def_nSubs>>
  /\ UNCHANGED notDef

\* a message arrives on the open socket i
DefWsMessage(i, messages) ==
  LET run == Def_onmessage(DefRun(Def_sockets), i, Def_ws, messages)
  IN
  /\ i \in DOMAIN Def_sockets
  /\ Def_sockets[i].readyState = OPEN
  /\ Def_sockets' = run.sockets
  /\ Def_last' = [op |-> "message", sock |-> i, to |-> Def_ws, sent |-> run.sent,
                  invoked |-> run.invoked, thrown |-> run.thrown]
  /\ UNCHANGED <<Def_prevSymbolMarket, Def_ws, Def_nSubs>>
  /\ UNCHANGED notDef

\* socket i closes (closing handshake done, or the connection dropped)
DefWsClose(i) ==
  /\ i \in DOMAIN Def_sockets
  /\ Def_sockets[i].readyState # CLOSED
  /\ Def_sockets' = [Def_sockets EXCEPT ![i].readyState = CLOSED,
                                        ![i].isAuthenticated = FALSE]
  /\ Def_last' = [op |-> "close", sock |-> i, to |-> None, sent |-> {},
                  invoked |-> {}, thrown |-> "none"]
  /\ UNCHANGED <<Def_prevSymbolMarket, Def_ws, Def_nSubs>>
  /\ UNCHANGED notDef

DefSubscribeFrames == {frame \in Def_last'.sent : frame.action = "subscribe"}

\* C12: a subscribe frame is sent on a connection only after an
\* authentication-success acknowledgment was received on that connection,
\* for every sequence of subscribe calls and socket events.
C12_SubscribeOnlyAfterAuth ==
  [][DefSubscribeFrames # {} => Def_sockets'[Def_last'.to].acked]_vars

\* C13: when an authentication-failed message is received the connection is
\* closed, no subscribe frame is sent on it afterwards, no connection is
\* opened without a new subscribe call, and no exception reaches the caller.
C13_AuthFailedCloses ==
  /\ [](\A i \in DOMAIN Def_sockets :
          Def_sockets[i].failed =>
            /\ Def_sockets[i].closeCalled
            /\ Def_sockets[i].readyState \in {CLOSING, CLOSED})
  /\ [][DefSubscribeFrames # {} => ~Def_sockets[Def_last'.to].failed]_vars
  /\ [][Len(Def_sockets') > Len(Def_sockets) => Def_last'.op = "subscribe"]_vars
  /\ [][Def_last'.op \in {"subscribe", "unsubscribe", "message"}
          => Def_last'.thrown # "uncaught"]_vars

C13_Witness ==
  /\ Len(Def_sockets) = 2
  /\ Def_sockets[1].failed
  /\ Def_sockets[1].readyState = CLOSING
  /\ Def_last.op = "subscribe"
  /\ Def_last.sock = 2

DefNext ==
  \/ \E symbol \in DefSymbols, period \in DefPeriods : DefSubscribe(symbol, period)
  \/ \E symbol \in DefSymbols, period \in DefPeriods : DefUnsubscribe(symbol, period)
  \/ \E i \in DOMAIN Def_sockets : DefWsOpen(i)
  \/ \E i \in DOMAIN Def_sockets, messages \in DefMessages : DefWsMessage(i, messages)
  \/ \E i \in DOMAIN Def_sockets : DefWsClose(i)

(* ==================== interval conversions, applied ==================== *)

\* the units a Period can carry: the ones the chart switches on, and
\* "second" for any other string
ConvTimespans == {"second", "minute", "hour", "day", "week", "month", "year"}

ConvPeriods == [multiplier : 0..MaxMultiplier, timespan : ConvTimespans]

ConvInit ==
  /\ Conv_period \in ConvPeriods
  /\ Conv_fn = "none"
  /\ Conv_out = <<>>

ConvIdle ==
  /\ Conv_period = [multiplier |-> 1, timespan |-> "minute"]
  /\ Conv_fn = "none"
  /\ Conv_out = <<>>

ApplyOKXConvertPeriodToBar ==
  /\ Conv_fn = "none"
  /\ Conv_fn' = "okx"
  /\ Conv_out' = OKX_convertPeriodToBar(Conv_period)
  /\ UNCHANGED Conv_period
  /\ UNCHANGED notConv

ApplyCCXTConvertPeriodToTimeframe ==
  /\ Conv_fn = "none"
  /\ Conv_fn' = "ccxt"
  /\ Conv_out' = CCXT_convertPeriodToTimeframe(Conv_period)
  /\ UNCHANGED Conv_period
  /\ UNCHANGED notConv

ApplyLocalConvertPeriodToTimeframe ==
  /\ Conv_fn = "none"
  /\ Conv_fn' = "local"
  /\ Conv_out' = Local_convertPeriodToTimeframe(Conv_period)
  /\ UNCHANGED Conv_period
  /\ UNCHANGED notConv

ConvNext ==
  \/ ApplyOKXConvertPeriodToBar
  \/ ApplyCCXTConvertPeriodToTimeframe
  \/ ApplyLocalConvertPeriodToTimeframe

SeqRange(seq) == {seq[i] : i \in DOMAIN seq}

\* C19: _convertPeriodToBar, for every multiplier m and supported unit: the
\* multiplier m' of the result is in the unit's supported list, is the
\* largest supported value not above m when m reaches the smallest one, and
\* is the smallest supported value when m is below it.
C19_ClosestSupportedBar ==
  ( /\ Conv_fn = "okx"
    /\ Conv_period.timespan \in DOMAIN OKX_supportedPeriods )
  => LET supported == SeqRange(OKX_supportedPeriods[Conv_period.timespan])
         smallest == CHOOSE v \in supported : \A w \in supported : v <= w
         m == Conv_period.multiplier
         m2 == Conv_out[1]
     IN /\ m2 \in supported
        /\ m >= smallest => /\ m2 <= m
                            /\ \A v \in supported : v <= m => v <= m2
        /\ m < smallest => m2 = smallest

C19_Witness ==
  /\ Conv_fn = "okx"
  /\ Conv_period = [multiplier |-> 7, timespan |-> "hour"]
  /\ Conv_out = <<6, "H">>

ConvRecognised == {"minute", "hour", "day", "week", "month"}

\* C20 as stated: with an unrecognised unit every adapter's interval
\* conversion returns the one-minute interval.
C20_UnrecognisedUnitOneMinute ==
  ( /\ Conv_fn # "none"
    /\ Conv_period.timespan \notin ConvRecognised )
  => Conv_out = <<1, "m">>

\* C20: with an unrecognised unit OKXDataFeeds and CCXTDataFeeds return the
\* one-minute interval and LocalDataFeeds returns the 15-minute interval.
C20_UnrecognisedUnitDefault ==
  ( /\ Conv_fn # "none"
    /\ Conv_period.timespan \notin ConvRecognised )
  => Conv_out = IF Conv_fn = "local" THEN <<15, "m">> ELSE <<1, "m">>

C20_Witness ==
  /\ Conv_fn = "local"
  /\ Conv_period = [multiplier |-> 5, timespan |-> "year"]
  /\ Conv_out = <<15, "m">>

(* =================== ticker conversions, applied ======================= *)

MaxTickerParts == 3

\* the pieces tickers are made of: the 'X.' prefix, base letters, the quote
\* suffixes USD and USDT (USD followed by T), and the two separators
TickTokens == { <<"X", ".">>, <<"B">>, USD, <<"T">>, <<"-">>, <<"/">> }

RECURSIVE TickConcat(_)
TickConcat(parts) ==
  IF parts = <<>> THEN <<>> ELSE Head(parts) \o TickConcat(Tail(parts))

TickTickers ==
  { TickConcat(parts) : parts \in UNION { [1..n -> TickTokens] : n \in 0..MaxTickerParts } }

\* SymbolInfo values; <<>> is an absent shortName / priceCurrency
TickSymbols ==
  [ ticker : TickTickers,
    shortName : { <<>>, <<"B">> },
    priceCurrency : { <<>>, <<"u", "s", "d", "t">>, USD } ]

TickInit ==
  /\ Tick_symbol \in TickSymbols
  /\ Tick_fn = "none"
  /\ Tick_out = <<>>
  /\ Tick_again = <<>>

TickIdle ==
  /\ Tick_symbol = [ticker |-> <<>>, shortName |-> <<>>, priceCurrency |-> <<>>]
  /\ Tick_fn = "none"
  /\ Tick_out = <<>>
  /\ Tick_again = <<>>

\* OKXDataFeeds: this._convertTickerFormat(symbol.ticker, quoteCurrency), and
\* the same call on the instrument id it returned
ApplyOKXConvertTickerFormat ==
  /\ Tick_fn = "none"
  /\ Tick_fn' = "okx"
  /\ LET out == OKX_convertTickerFormat(Tick_symbol.ticker, OKX_quote(Tick_symbol))
     IN /\ Tick_out' = out
        /\ Tick_again' = OKX_convertTickerFormat(out, OKX_quote(Tick_symbol))
  /\ UNCHANGED Tick_symbol
  /\ UNCHANGED notTick

\* DefaultDatafeed: this._convertTickerFormat(symbol.ticker), and the same
\* call on the pair it returned
ApplyDefConvertTickerFormat ==
  /\ Tick_fn = "none"
  /\ Tick_fn' = "default"
  /\ LET out == Def_convertTickerFormat(Tick_symbol.ticker)
     IN /\ Tick_out' = out
        /\ Tick_again' = Def_convertTickerFormat(out)
  /\ UNCHANGED Tick_symbol
  /\ UNCHANGED notTick

\* CCXTDataFeeds: this._convertTickerToSymbol(symbol), and the same call on
\* the symbol whose ticker is the market symbol it returned
ApplyCCXTConvertTickerToSymbol ==
  /\ Tick_fn = "none"
  /\ Tick_fn' = "ccxt"
  /\ LET out == CCXT_convertTickerToSymbol(Tick_symbol)
     IN /\ Tick_out' = out
        /\ Tick_again' = CCXT_convertTickerToSymbol([Tick_symbol EXCEPT !.ticker = out])
  /\ UNCHANGED Tick_symbol
  /\ UNCHANGED notTick

TickNext ==
  \/ ApplyOKXConvertTickerFormat
  \/ ApplyDefConvertTickerFormat
  \/ ApplyCCXTConvertTickerToSymbol

\* C21: in each adapter the ticker conversion applied to its own output
\* returns that output unchanged, for every ticker and quote currency.
C21_TickerConversionIdempotent ==
  Tick_fn # "none" => Tick_again = Tick_out

C21_Witness ==
  /\ Tick_fn = "okx"
  /\ Tick_symbol.ticker = <<"X", ".", "B", "U", "S", "D">>
  /\ Tick_out = <<"B", "-", "U", "S", "D", "T">>
  /\ Tick_again = Tick_out

(* ======================== bars built from upstream records ============= *)

\* what is not a number: NaN and an absent (undefined) field; both are
\* falsy and both make a product NaN
NaN == -1

Digits == <<"0", "1", "2", "3", "4", "5", "6", "7", "8", "9">>

IsDigit(c) == \E d \in DOMAIN Digits : Digits[d] = c

DigitVal(c) == (CHOOSE d \in DOMAIN Digits : Digits[d] = c) - 1

\* the value of the leading digits of s, given the value acc read so far
RECURSIVE ParseDigits(_, _)
ParseDigits(s, acc) ==
  IF s = <<>> \/ ~IsDigit(Head(s)) THEN acc
  ELSE ParseDigits(Tail(s), 10 * acc + DigitVal(Head(s)))

\* parseInt(s, 10) of an unsigned string; <<>> is undefined
ParseInt(s) ==
  IF s = <<>> \/ ~IsDigit(Head(s)) THEN NaN ELSE ParseDigits(s, 0)

\* parseFloat(s) of an unsigned string without a fraction; <<>> is undefined
ParseFloat(s) ==
  IF s = <<>> \/ ~IsDigit(Head(s)) THEN NaN ELSE ParseDigits(s, 0)

\* a || b on numbers
JsOr(a, b) == IF a = NaN \/ a = 0 THEN b ELSE a

\* a * b on numbers
JsMul(a, b) == IF a = NaN \/ b = NaN THEN NaN ELSE a * b

\* Array.prototype.reverse
Reverse(seq) == [i \in DOMAIN seq |-> seq[Len(seq) + 1 - i]]

\* candle[i] of a string array (i counted from 0); <<>> is undefined
OKX_at(candle, i) == IF i + 1 <= Len(candle) THEN candle[i + 1] ELSE <<>>

\* getHistoryKLineData: the bar built from one candle of the page
OKX_historyBar(candle) ==
  [ timestamp |-> ParseInt(OKX_at(candle, 0)),
    open |-> ParseFloat(OKX_at(candle, 1)),
    high |-> ParseFloat(OKX_at(candle, 2)),
    low |-> ParseFloat(OKX_at(candle, 3)),
    close |-> ParseFloat(OKX_at(candle, 4)),
    volume |-> ParseFloat(OKX_at(candle, 5)),
    turnover |-> JsOr(ParseFloat(OKX_at(candle, 6)),
                      JsMul(ParseFloat(OKX_at(candle, 5)), ParseFloat(OKX_at(candle, 4)))) ]

\* onmessage: the bars delivered for one candle of a channel message
OKX_streamBars(candle) ==
  IF Len(candle) >= 6
  THEN << [ timestamp |-> ParseInt(OKX_at(candle, 0)),
            open |-> ParseFloat(OKX_at(candle, 1)),
            high |-> ParseFloat(OKX_at(candle, 2)),
            low |-> ParseFloat(OKX_at(candle, 3)),
            close |-> ParseFloat(OKX_at(candle, 4)),
            volume |-> ParseFloat(OKX_at(candle, 5)),
            turnover |-> JsOr(ParseFloat(OKX_at(candle, 6)),
                              JsMul(ParseFloat(OKX_at(candle, 5)),
                                    ParseFloat(OKX_at(candle, 4)))) ] >>
  ELSE <<>>

\* getHistoryKLineData: the bar built from one aggregate of results
Def_historyBar(data) ==
  [ timestamp |-> JsOr(data.s, data.t),
    open |-> data.o,
    high |-> data.h,
    low |-> data.l,
    close |-> data.c,
    volume |-> data.v,
    turnover |-> JsOr(data.vw, JsMul(data.c, data.v)) ]

\* a stream bar whose turnover is the vw field alone
Def_streamBar_vw(data) ==
  [ timestamp |-> data.s,
    open |-> data.o,
    high |-> data.h,
    low |-> data.l,
    close |-> data.c,
    volume |-> data.v,
    turnover |-> data.vw ]

\* onmessage: the bar delivered for one 'XA' aggregate
Def_streamBar(data) ==
  [ timestamp |-> data.s,
    open |-> data.o,
    high |-> data.h,
    low |-> data.l,
    close |-> data.c,
    volume |-> data.v,
    turnover |-> JsOr(data.vw, JsMul(data.c, data.v)) ]

\* getHistoryKLineData: the bar built from one candle of fetchOHLCV
CCXT_historyBar(candle) ==
  [ timestamp |-> candle[1],
    open |-> candle[2],
    high |-> candle[3],
    low |-> candle[4],
    close |-> candle[5],
    volume |-> candle[6],
    turnover |-> JsMul(candle[5], candle[6]) ]

\* watchHandler: the bar delivered for the array watchOHLCV resolved with
CCXT_watchBars(ohlcv) ==
  IF Len(ohlcv) > 0
  THEN LET latestCandle == ohlcv[Len(ohlcv)]
       IN << [ timestamp |-> latestCandle[1],
               open |-> latestCandle[2],
               high |-> latestCandle[3],
               low |-> latestCandle[4],
               close |-> latestCandle[5],
               volume |-> latestCandle[6],
               turnover |-> JsMul(latestCandle[5], latestCandle[6]) ] >>
  ELSE <<>>

\* fetchLatest: the bar delivered for the array fetchOHLCV resolved with,
\* when its timestamp passes the test on _lastTimestamp
CCXT_pollBars(ohlcv) ==
  IF Len(ohlcv) > 0
  THEN LET latestCandle == ohlcv[Len(ohlcv)]
       IN << [ timestamp |-> latestCandle[1],
               open |-> latestCandle[2],
               high |-> latestCandle[3],
               low |-> latestCandle[4],
               close |-> latestCandle[5],
               volume |-> latestCandle[6],
               turnover |-> JsMul(latestCandle[5], latestCandle[6]) ] >>
  ELSE <<>>

MaxPage == 2

\* the sequences of at most n elements of set
SeqsUpTo(set, n) == UNION { [1..k -> set] : k \in 0..n }

\* timestamps as the wire carries them
WireStamps == { <<Digits[t + 1]>> : t \in 0..MaxTs }

\* OKX candles: [ts, o, h, l, c, vol] with or without volCcy, and a candle
\* cut short
OKXWireCandles ==
  { <<ts, <<"2">>, <<"4">>, <<"1">>, <<"3">>, vol>> \o volCcy :
      ts \in WireStamps, vol \in { <<"5">>, <<"1", "2">> },
      volCcy \in { <<>>, << <<"0">> >>, << <<"7">> >> } }
  \cup { <<ts, <<"2">>, <<"4">>, <<"1">>, <<"3">>>> : ts \in WireStamps }

\* Massive aggregates: s or t as the timestamp, with or without vw
DefAggregates ==
  { [s |-> s, t |-> 1, o |-> 2, h |-> 4, l |-> 1, c |-> 3, v |-> v, vw |-> vw] :
      s \in (0..MaxTs) \cup {NaN}, v \in {5, 12}, vw \in {NaN, 0, 7} }

\* CCXT candles: [timestamp, open, high, low, close, volume]
CCXTCandles ==
  { <<ts, 2, 4, 1, c, v>> : ts \in 0..MaxTs, c \in {0, 3}, v \in {5, 12} }

BarsInit ==
  /\ \/ Bars_source = "okx" /\ Bars_in \in OKXWireCandles
     \/ Bars_source = "default" /\ Bars_in \in DefAggregates
     \/ Bars_source = "ccxt" /\ Bars_in \in SeqsUpTo(CCXTCandles, MaxPage)
  /\ Bars_path = "none"
  /\ Bars_out = <<>>

BarsIdle ==
  /\ Bars_source = "ccxt"
  /\ Bars_in = <<>>
  /\ Bars_path = "none"
  /\ Bars_out = <<>>

ApplyOKXHistoryBar ==
  /\ Bars_path = "none"
  /\ Bars_source = "okx"
  /\ Bars_path' = "okx-history"
  /\ Bars_out' = <<OKX_historyBar(Bars_in)>>
  /\ UNCHANGED <<Bars_source, Bars_in>>
  /\ UNCHANGED notBars

ApplyOKXStreamBars ==
  /\ Bars_path = "none"
  /\ Bars_source = "okx"
  /\ Bars_path' = "okx-stream"
  /\ Bars_out' = OKX_streamBars(Bars_in)
  /\ UNCHANGED <<Bars_source, Bars_in>>
  /\ UNCHANGED notBars

ApplyDefHistoryBar ==
  /\ Bars_path = "none"
  /\ Bars_source = "default"
  /\ Bars_path' = "default-history"
  /\ Bars_out' = <<Def_historyBar(Bars_in)>>
  /\ UNCHANGED <<Bars_source, Bars_in>>
  /\ UNCHANGED notBars

ApplyDefStreamBar ==
  /\ Bars_path = "none"
  /\ Bars_source = "default"
  /\ Bars_path' = "default-stream"
  /\ Bars_out' = <<Def_streamBar(Bars_in)>>
  /\ UNCHANGED <<Bars_source, Bars_in>>
  /\ UNCHANGED notBars

ApplyCCXTHistoryBar ==
  /\ Bars_path = "none"
  /\ Bars_source = "ccxt"
  /\ Bars_path' = "ccxt-history"
  /\ Bars_out' = [i \in DOMAIN Bars_in |-> CCXT_historyBar(Bars_in[i])]
  /\ UNCHANGED <<Bars_source, Bars_in>>
  /\ UNCHANGED notBars

ApplyCCXTWatchBars ==
  /\ Bars_path = "none"
  /\ Bars_source = "ccxt"
  /\ Bars_path' = "ccxt-watch"
  /\ Bars_out' = CCXT_watchBars(Bars_in)
  /\ UNCHANGED <<Bars_source, Bars_in>>
  /\ UNCHANGED notBars

ApplyCCXTPollBars ==
  /\ Bars_path = "none"
  /\ Bars_source = "ccxt"
  /\ Bars_path' = "ccxt-poll"
  /\ Bars_out' = CCXT_pollBars(Bars_in)
  /\ UNCHANGED <<Bars_source, Bars_in>>
  /\ UNCHANGED notBars

BarsNext ==
  \/ ApplyOKXHistoryBar
  \/ ApplyOKXStreamBars
  \/ ApplyDefHistoryBar
  \/ ApplyDefStreamBar
  \/ ApplyCCXTHistoryBar
  \/ ApplyCCXTWatchBars
  \/ ApplyCCXTPollBars

\* the upstream record carries no turnover value: an OKX candle without
\* volCcy, an aggregate without vw, any CCXT candle
BarsNoTurnover ==
  CASE Bars_source = "okx" -> Len(Bars_in) < 7
    [] Bars_source = "default" -> Bars_in.vw = NaN
    [] OTHER -> TRUE

\* C25: on every history and live path of CCXTDataFeeds, OKXDataFeeds and
\* DefaultDatafeed, a bar built from an upstream record that carries no
\* turnover value has turnover = close * volume.
C25_TurnoverFallback ==
  ( Bars_path # "none" /\ BarsNoTurnover )
  => \A i \in DOMAIN Bars_out :
       Bars_out[i].turnover = JsMul(Bars_out[i].close, Bars_out[i].volume)

C25_Witness ==
  /\ Bars_path = "default-stream"
  /\ Bars_in.vw = NaN
  /\ Bars_in.v = 12
  /\ Len(Bars_out) = 1
  /\ Bars_out[1].close = 3
  /\ Bars_out[1].turnover = 36

(* ================== searchSymbols and getHistoryKLineData ============== *)

MaxRestCalls == 2

\* String.prototype.toLowerCase on the letters tickers and queries use
ToLowerChar(c) ==
  CASE c = "B" -> "b" [] c = "E" -> "e" [] c = "U" -> "u" [] c = "X" -> "x"
    [] c = "S" -> "s" [] c = "D" -> "d" [] c = "T" -> "t" [] OTHER -> c

ToLowerCase(s) == [i \in DOMAIN s |-> ToLowerChar(s[i])]

\* s.includes(q)
IncludesString(s, q) ==
  \E i \in 0..(Len(s) - Len(q)) : SubSeq(s, i + 1, i + Len(q)) = q

\* field?.toLowerCase().includes(searchLower); <<>> is an absent field
OptIncludesLower(field, searchLower) ==
  field # <<>> /\ IncludesString(ToLowerCase(field), searchLower)

\* `${field}` in a template literal; <<>> is an absent field
Template(field) == IF field = <<>> THEN <<"undefined">> ELSE field

\* what an awaited fetch(url) and the body readers can produce:
\*   kind "network": fetch rejects
\*   kind "http":    a response whose ok is false
\*   kind "ok":      a response whose ok is true
\* json says whether response.json() resolves; code and body are the code
\* and the list (data / results / the array itself) of the parsed body
NoResponse == [kind |-> "none", json |-> FALSE, code |-> "", body |-> <<>>]

Responses(codes, bodies) ==
  { [kind |-> "network", json |-> FALSE, code |-> "", body |-> <<>>] }
  \cup { [kind |-> "http", json |-> j, code |-> "", body |-> <<>>] : j \in BOOLEAN }
  \cup { [kind |-> "ok", json |-> FALSE, code |-> "", body |-> <<>>] }
  \cup { [kind |-> "ok", json |-> TRUE, code |-> c, body |-> b] : c \in codes, b \in bodies }

\* how a call settles
Resolved(value) == [outcome |-> "resolved", value |-> value, error |-> ""]

Rejected(error) == [outcome |-> "rejected", value |-> <<>>, error |-> error]

(* ---- LocalDataFeeds ---- *)

LocalSymbolInfos ==
  { [ticker |-> <<"B", "U">>, name |-> <<"B">>, shortName |-> <<"B">>, priceCurrency |-> <<"U">>],
    [ticker |-> <<"E", "U">>, name |-> <<"E">>, shortName |-> <<"E">>, priceCurrency |-> <<"U">>] }

LocalBars ==
  { [timestamp |-> ts, open |-> 2, high |-> 4, low |-> 1, close |-> 3, volume |-> 5,
     turnover |-> 15] : ts \in 0..MaxTs }

\* searchSymbols: the try block and its catch
Local_searchSymbols(response) ==
  IF response.kind = "network" THEN Resolved(<<>>)
  ELSE IF response.kind # "ok" THEN Resolved(<<>>)
  ELSE IF ~response.json THEN Resolved(<<>>)
  ELSE Resolved(response.body)

\* getHistoryKLineData: the try block and its catch
Local_getHistoryKLineData(response) ==
  IF response.kind = "network" THEN Resolved(<<>>)
  ELSE IF response.kind # "ok" THEN Resolved(<<>>)
  ELSE IF ~response.json THEN Resolved(<<>>)
  ELSE Resolved(response.body)

(* ---- OKXDataFeeds ---- *)

\* instruments of /api/v5/public/instruments; <<>> is an absent field
OKXInstruments ==
  { [instId |-> <<"B", "-", "U">>, baseCcy |-> <<"B">>, quoteCcy |-> <<"U">>],
    [instId |-> <<"E", "-", "U">>, baseCcy |-> <<>>, quoteCcy |-> <<>>] }

\* candles of /api/v5/market/candles
OKXPageCandles ==
  { <<ts, <<"2">>, <<"4">>, <<"1">>, <<"3">>, <<"1", "2">>>> \o volCcy :
      ts \in WireStamps, volCcy \in { <<>>, << <<"7">> >> } }

OKX_searchMatches(inst, searchLower) ==
  \/ IncludesString(ToLowerCase(inst.instId), searchLower)
  \/ OptIncludesLower(inst.baseCcy, searchLower)
  \/ OptIncludesLower(inst.quoteCcy, searchLower)

OKX_symbolInfo(inst) ==
  [ ticker |-> inst.instId,
    name |-> Template(inst.baseCcy) \o <<"/">> \o Template(inst.quoteCcy),
    shortName |-> inst.baseCcy,
    priceCurrency |-> IF inst.quoteCcy # <<>> THEN inst.quoteCcy ELSE USDT ]

\* searchSymbols: the try block and its catch
OKX_searchSymbols(response, search) ==
  IF response.kind = "network" THEN Resolved(<<>>)
  ELSE IF response.kind # "ok" THEN Resolved(<<>>)
  ELSE IF ~response.json THEN Resolved(<<>>)
  ELSE IF response.code # "0" THEN Resolved(<<>>)
  ELSE LET Matches(inst) == OKX_searchMatches(inst, ToLowerCase(search))
           instruments == IF search # <<>> THEN SelectSeq(response.body, Matches)
                          ELSE response.body
       IN Resolved([i \in DOMAIN instruments |-> OKX_symbolInfo(instruments[i])])

\* a history call that returns the page in upstream order
OKX_getHistoryKLineData_upstreamOrder(response) ==
  IF response.kind = "network" THEN Rejected("fetch failed")
  ELSE IF response.kind # "ok" THEN Rejected("API request failed")
  ELSE IF ~response.json THEN Rejected("invalid json")
  ELSE IF response.code # "0" THEN Rejected("API error")
  ELSE Resolved([i \in DOMAIN response.body |-> OKX_historyBar(response.body[i])])

\* a history call that hides a failed request
OKX_getHistoryKLineData_swallow(response) ==
  IF response.kind # "ok" \/ ~response.json \/ response.code # "0" THEN Resolved(<<>>)
  ELSE Resolved(Reverse([i \in DOMAIN response.body |-> OKX_historyBar(response.body[i])]))

\* getHistoryKLineData: the try block and its catch
OKX_getHistoryKLineData(response) ==
  IF response.kind = "network" THEN Rejected("fetch failed")
  ELSE IF response.kind # "ok" THEN Rejected("API request failed")
  ELSE IF ~response.json THEN Rejected("invalid json")
  ELSE IF response.code # "0" THEN Rejected("API error")
  ELSE Resolved(Reverse([i \in DOMAIN response.body |-> OKX_historyBar(response.body[i])]))

(* ---- DefaultDatafeed ---- *)

\* results of /v3/reference/tickers; <<>> is an absent field
DefTickerResults ==
  { [ticker |-> <<"B", "-", "U">>, name |-> <<"B">>, currency_name |-> <<"U">>],
    [ticker |-> <<"E", "-", "U">>, name |-> <<>>, currency_name |-> <<>>] }

\* results of /v2/aggs
DefPageAggregates ==
  { [s |-> ts, t |-> 1, o |-> 2, h |-> 4, l |-> 1, c |-> 3, v |-> 12, vw |-> vw] :
      ts \in 0..MaxTs, vw \in {NaN, 7} }

Def_symbolInfo(data) ==
  [ ticker |-> data.ticker,
    name |-> IF data.name # <<>> THEN data.name ELSE data.ticker,
    shortName |-> data.ticker,
    priceCurrency |-> IF data.currency_name # <<>> THEN data.currency_name ELSE USD ]

\* searchSymbols: no try block, and ok is not looked at
Def_searchSymbols(response) ==
  IF response.kind = "network" THEN Rejected("fetch failed")
  ELSE IF ~response.json THEN Rejected("invalid json")
  ELSE Resolved([i \in DOMAIN response.body |-> Def_symbolInfo(response.body[i])])

\* getHistoryKLineData: the try block and its catch
Def_getHistoryKLineData(response) ==
  IF response.kind = "network" THEN Rejected("fetch failed")
  ELSE IF response.kind # "ok" THEN Rejected("API request failed")
  ELSE IF ~response.json THEN Rejected("invalid json")
  ELSE Resolved([i \in DOMAIN response.body |-> Def_historyBar(response.body[i])])

(* ---- CCXTDataFeeds ---- *)

\* markets of exchange.loadMarkets(); <<>> is an absent field, active is
\* "true", "false" or "undefined"
CCXTMarkets ==
  { [symbol |-> <<"B", "/", "U">>, base |-> <<"B">>, quote |-> <<"U">>,
     baseId |-> <<"X">>, quoteId |-> <<"U">>, type |-> "spot", active |-> "true"],
    [symbol |-> <<"E", "/", "U">>, base |-> <<"E">>, quote |-> <<"U">>,
     baseId |-> <<>>, quoteId |-> <<>>, type |-> "spot", active |-> "undefined"],
    [symbol |-> <<"E", "/", "B">>, base |-> <<"E">>, quote |-> <<"B">>,
     baseId |-> <<"E">>, quoteId |-> <<"B">>, type |-> "swap", active |-> "true"],
    [symbol |-> <<"T", "/", "U">>, base |-> <<"T">>, quote |-> <<"U">>,
     baseId |-> <<"T">>, quoteId |-> <<"U">>, type |-> "spot", active |-> "false"] }

\* Object.values of a markets dictionary: no two entries share a symbol
CCXTMarketLists ==
  { list \in SeqsUpTo(CCXTMarkets, MaxPage) :
      \A i, j \in DOMAIN list : i # j => list[i].symbol # list[j].symbol }

\* candles of exchange.fetchOHLCV()
CCXTPageCandles == { <<ts, 2, 4, 1, 3, 5>> : ts \in 0..MaxTs }

\* this._markets before the first load
NoMarkets == [id |-> 0, list |-> <<>>]

CCXT_isSpotActive(market) == market.type = "spot" /\ market.active # "false"

CCXT_searchMatches(market, searchLower) ==
  \/ IncludesString(ToLowerCase(market.symbol), searchLower)
  \/ OptIncludesLower(market.base, searchLower)
  \/ OptIncludesLower(market.quote, searchLower)
  \/ OptIncludesLower(market.baseId, searchLower)
  \/ OptIncludesLower(market.quoteId, searchLower)

CCXT_symbolInfo(market) ==
  [ ticker |-> market.symbol,
    name |-> Template(market.base) \o <<"/">> \o Template(market.quote),
    shortName |-> market.base,
    priceCurrency |-> market.quote ]

\* a search that looks at symbol, base and quote only
CCXT_searchSymbols_noIds(markets, search) ==
  LET Matches(market) ==
        \/ IncludesString(ToLowerCase(market.symbol), ToLowerCase(search))
        \/ OptIncludesLower(market.base, ToLowerCase(search))
        \/ OptIncludesLower(market.quote, ToLowerCase(search))
      spot == SelectSeq(markets.list, CCXT_isSpotActive)
      symbols == IF search # <<>> THEN SelectSeq(spot, Matches) ELSE spot
  IN IF markets.id = 0 THEN Resolved(<<>>)
     ELSE Resolved([i \in DOMAIN symbols |-> CCXT_symbolInfo(symbols[i])])

\* searchSymbols after _ensureMarketsLoaded resolved
CCXT_searchSymbols(markets, search) ==
  LET Matches(market) == CCXT_searchMatches(market, ToLowerCase(search))
      spot == SelectSeq(markets.list, CCXT_isSpotActive)
      symbols == IF search # <<>> THEN SelectSeq(spot, Matches) ELSE spot
  IN IF markets.id = 0 THEN Resolved(<<>>)
     ELSE Resolved([i \in DOMAIN symbols |-> CCXT_symbolInfo(symbols[i])])

\* a history call that maps every candle fetchOHLCV resolved with
CCXT_getHistoryKLineData_all(ohlcv, from, to) ==
  Resolved([i \in DOMAIN ohlcv |-> CCXT_historyBar(ohlcv[i])])

\* getHistoryKLineData after fetchOHLCV resolved
CCXT_getHistoryKLineData(ohlcv, from, to) ==
  IF Len(ohlcv) = 0 THEN Resolved(<<>>)
  ELSE LET InRange(candle) == candle[1] >= from /\ candle[1] <= to
           kept == SelectSeq(ohlcv, InRange)
       IN Resolved([i \in DOMAIN kept |-> CCXT_historyBar(kept[i])])

(* ---- the calls ---- *)

\* a call of searchSymbols or getHistoryKLineData: pc is "load" while it
\* awaits loadMarkets, "fetch" while it awaits the upstream request, and
\* "done" once it settled; requests counts the upstream requests it issued
\* for its data, load is the number of the loadMarkets call it awaits
RestCall(op, pc, requests, load) ==
  [ op |-> op, pc |-> pc, requests |-> requests, load |-> load,
    response |-> NoResponse, outcome |-> "pending", value |-> <<>>, error |-> "" ]

RestSettle(call, response, result) ==
  [ call EXCEPT !.pc = "done", !.response = response, !.outcome = result.outcome,
                !.value = result.value, !.error = result.error ]

RestQueries == { <<>>, <<"b">>, <<"X">>, <<"u">> }

\* the arguments of the calls: every range with no query, and every query
RestArgs ==
  { [from |-> f, to |-> t, search |-> <<>>] : f \in 0..MaxTs, t \in 0..MaxTs }
  \cup { [from |-> 0, to |-> MaxTs, search |-> q] : q \in RestQueries }

\* what the exchange behind CCXT holds: every page with no markets (met
\* with every range), and every market list with no candles (met with
\* every query)
RestExchanges ==
  { [markets |-> <<>>, ohlcv |-> page] : page \in SeqsUpTo(CCXTPageCandles, MaxPage) }
  \cup { [markets |-> list, ohlcv |-> <<>>] : list \in CCXTMarketLists }

RestInit ==
  /\ Rest_adapter \in {"local", "okx", "default", "ccxt"}
  /\ Rest_args \in RestArgs
  /\ Rest_exchange \in
       IF Rest_adapter = "ccxt"
       THEN { x \in RestExchanges :
                /\ x.ohlcv # <<>> => Rest_args.search = <<>>
                /\ x.markets # <<>> => Rest_args.from = 0 /\ Rest_args.to = MaxTs }
       ELSE { [markets |-> <<>>, ohlcv |-> <<>>] }
  /\ Rest_calls = <<>>
  /\ CCXT_markets = NoMarkets
  /\ Rest_loads = <<>>

RestIdle ==
  /\ Rest_adapter = "local"
  /\ Rest_args = [from |-> 0, to |-> 0, search |-> <<>>]
  /\ Rest_exchange = [markets |-> <<>>, ohlcv |-> <<>>]
  /\ Rest_calls = <<>>
  /\ CCXT_markets = NoMarkets
  /\ Rest_loads = <<>>

restEnv == <<Rest_adapter, Rest_args, Rest_exchange>>

\* LocalDataFeeds, OKXDataFeeds and DefaultDatafeed: a call reads no field
\* that another call writes, so one call at a time is followed
RestFetch(op) ==
  /\ Rest_calls = <<>>
  /\ Rest_calls' = <<RestCall(op, "fetch", 1, 0)>>
  /\ UNCHANGED <<restEnv, CCXT_markets, Rest_loads>>
  /\ UNCHANGED notRest

RestAwaiting(adapter, op) ==
  /\ Rest_adapter = adapter
  /\ Len(Rest_calls) = 1
  /\ Rest_calls[1].op = op
  /\ Rest_calls[1].pc = "fetch"

RestSettled(response, result) ==
  /\ Rest_calls' = <<RestSettle(Rest_calls[1], response, result)>>
  /\ UNCHANGED <<restEnv, CCXT_markets, Rest_loads>>
  /\ UNCHANGED notRest

LocalSearchSymbols ==
  /\ Rest_adapter = "local"
  /\ RestFetch("search")

LocalSearchSettle ==
  /\ RestAwaiting("local", "search")
  /\ \E response \in Responses({""}, SeqsUpTo(LocalSymbolInfos, MaxPage)) :
       RestSettled(response, Local_searchSymbols(response))

LocalGetHistoryKLineData ==
  /\ Rest_adapter = "local"
  /\ RestFetch("history")

LocalHistorySettle ==
  /\ RestAwaiting("local", "history")
  /\ \E response \in Responses({""}, SeqsUpTo(LocalBars, MaxPage)) :
       RestSettled(response, Local_getHistoryKLineData(response))

OKXSearchSymbols ==
  /\ Rest_adapter = "okx"
  /\ RestFetch("search")

OKXSearchSettle ==
  /\ RestAwaiting("okx", "search")
  /\ \E response \in Responses({"0", "1"}, SeqsUpTo(OKXInstruments, MaxPage)) :
       RestSettled(response, OKX_searchSymbols(response, Rest_args.search))

OKXGetHistoryKLineData ==
  /\ Rest_adapter = "okx"
  /\ RestFetch("history")

OKXHistorySettle ==
  /\ RestAwaiting("okx", "history")
  /\ \E response \in Responses({"0", "1"}, SeqsUpTo(OKXPageCandles, MaxPage)) :
       RestSettled(response, OKX_getHistoryKLineData(response))

DefSearchSymbols ==
  /\ Rest_adapter = "default"
  /\ RestFetch("search")

DefSearchSettle ==
  /\ RestAwaiting("default", "search")
  /\ \E response \in Responses({""}, SeqsUpTo(DefTickerResults, MaxPage)) :
       RestSettled(response, Def_searchSymbols(response))

DefGetHistoryKLineData ==
  /\ Rest_adapter = "default"
  /\ RestFetch("history")

DefHistorySettle ==
  /\ RestAwaiting("default", "history")
  /\ \E response \in Responses({""}, SeqsUpTo(DefPageAggregates, MaxPage)) :
       RestSettled(response, Def_getHistoryKLineData(response))

\* what exchange.fetchOHLCV settles with
CCXTResponse(ok) ==
  IF ok THEN [kind |-> "ok", json |-> TRUE, code |-> "", body |-> Rest_exchange.ohlcv]
  ELSE [kind |-> "network", json |-> FALSE, code |-> "", body |-> <<>>]

\* _ensureMarketsLoaded: loadMarkets is called while _markets is not set
CCXT_ensureMarketsLoaded(markets) == markets.id = 0

\* searchSymbols up to its first suspension
CCXTSearchSymbols ==
  /\ Rest_adapter = "ccxt"
  /\ Len(Rest_calls) < MaxRestCalls
  /\ IF CCXT_ensureMarketsLoaded(CCXT_markets)
     THEN /\ Rest_loads' = Append(Rest_loads, "pending")
          /\ Rest_calls' = Append(Rest_calls, RestCall("search", "load", 0, Len(Rest_loads) + 1))
     ELSE /\ Rest_loads' = Rest_loads
          /\ Rest_calls' = Append(Rest_calls,
               RestSettle(RestCall("search", "done", 0, 0), NoResponse,
                          CCXT_searchSymbols(CCXT_markets, Rest_args.search)))
  /\ UNCHANGED <<restEnv, CCXT_markets>>
  /\ UNCHANGED notRest

\* getHistoryKLineData up to its first suspension
CCXTGetHistoryKLineData ==
  /\ Rest_adapter = "ccxt"
  /\ Len(Rest_calls) < MaxRestCalls
  /\ IF CCXT_ensureMarketsLoaded(CCXT_markets)
     THEN /\ Rest_loads' = Append(Rest_loads, "pending")
          /\ Rest_calls' = Append(Rest_calls, RestCall("history", "load", 0, Len(Rest_loads) + 1))
     ELSE /\ Rest_loads' = Rest_loads
          /\ Rest_calls' = Append(Rest_calls, RestCall("history", "fetch", 1, 0))
  /\ UNCHANGED <<restEnv, CCXT_markets>>
  /\ UNCHANGED notRest

\* loadMarkets settles: _ensureMarketsLoaded stores the markets or throws,
\* and the call that awaited it goes on
CCXTLoadMarketsSettle ==
  \E i \in DOMAIN Rest_calls, ok \in BOOLEAN :
    LET call == Rest_calls[i]
        markets == IF ok THEN [id |-> call.load, list |-> Rest_exchange.markets]
                   ELSE CCXT_markets
    IN /\ Rest_adapter = "ccxt"
       /\ call.pc = "load"
       /\ Rest_loads' = [Rest_loads EXCEPT ![call.load] = IF ok THEN "ok" ELSE "failed"]
       /\ CCXT_markets' = markets
       /\ Rest_calls' = [Rest_calls EXCEPT ![i] =
            IF call.op = "search"
            THEN RestSettle(call, NoResponse,
                   IF ok THEN CCXT_searchSymbols(markets, Rest_args.search)
                   ELSE Resolved(<<>>))
            ELSE IF ok THEN [call EXCEPT !.pc = "fetch", !.requests = call.requests + 1]
                 ELSE RestSettle(call, NoResponse, Rejected("Failed to load markets"))]
       /\ UNCHANGED restEnv
       /\ UNCHANGED notRest

\* fetchOHLCV settles
CCXTFetchOHLCVSettle ==
  \E i \in DOMAIN Rest_calls, ok \in BOOLEAN :
    LET call == Rest_calls[i]
    IN /\ Rest_adapter = "ccxt"
       /\ call.pc = "fetch"
       /\ Rest_calls' = [Rest_calls EXCEPT ![i] =
            RestSettle(call, CCXTResponse(ok),
              IF ok THEN CCXT_getHistoryKLineData(Rest_exchange.ohlcv, Rest_args.from, Rest_args.to)
              ELSE Rejected("fetch failed"))]
       /\ UNCHANGED <<restEnv, CCXT_markets, Rest_loads>>
       /\ UNCHANGED notRest

RestNext ==
  \/ LocalSearchSymbols
  \/ LocalSearchSettle
  \/ LocalGetHistoryKLineData
  \/ LocalHistorySettle
  \/ OKXSearchSymbols
  \/ OKXSearchSettle
  \/ OKXGetHistoryKLineData
  \/ OKXHistorySettle
  \/ DefSearchSymbols
  \/ DefSearchSettle
  \/ DefGetHistoryKLineData
  \/ DefHistorySettle
  \/ CCXTSearchSymbols
  \/ CCXTGetHistoryKLineData
  \/ CCXTLoadMarketsSettle
  \/ CCXTFetchOHLCVSettle


(* ---- properties of the calls ---- *)

\* the history calls of the adapter that resolved
RestResolvedHistory(adapter) ==
  { i \in DOMAIN Rest_calls :
      /\ Rest_adapter = adapter
      /\ Rest_calls[i].op = "history"
      /\ Rest_calls[i].outcome = "resolved" }

\* C22: CCXTDataFeeds.getHistoryKLineData: every returned bar has
\* from <= timestamp <= to, and the returned bars are the upstream candles
\* inside the range, each once and in upstream order.
C22_CCXTHistoryInRangeInOrder ==
  \A i \in RestResolvedHistory("ccxt") :
    LET upstream == Rest_calls[i].response.body
        bars == Rest_calls[i].value
        inside == { j \in DOMAIN upstream :
                      upstream[j][1] >= Rest_args.from /\ upstream[j][1] <= Rest_args.to }
    IN /\ \A k \in DOMAIN bars :
            bars[k].timestamp >= Rest_args.from /\ bars[k].timestamp <= Rest_args.to
       /\ Len(bars) = Cardinality(inside)
       /\ \E f \in [DOMAIN bars -> inside] :
            /\ \A k, l \in DOMAIN bars : k < l => f[k] < f[l]
            /\ \A k \in DOMAIN bars : bars[k].timestamp = upstream[f[k]][1]

C22_Witness ==
  \E i \in RestResolvedHistory("ccxt") :
    /\ Rest_args.from = 1
    /\ Rest_args.to = 1
    /\ Len(Rest_calls[i].response.body) = 2
    /\ Rest_calls[i].response.body[1][1] = 2
    /\ Rest_calls[i].response.body[2][1] = 1
    /\ Len(Rest_calls[i].value) = 1


\* C23: OKXDataFeeds.getHistoryKLineData: for every newest-first upstream
\* page, the returned bars are sorted ascending by timestamp and every
\* returned bar has from <= timestamp <= to.
C23_OKXHistorySortedInRange ==
  \A i \in RestResolvedHistory("okx") :
    LET upstream == Rest_calls[i].response.body
        bars == Rest_calls[i].value
    IN ( \A j, k \in DOMAIN upstream :
           j < k => ParseInt(upstream[j][1]) >= ParseInt(upstream[k][1]) )
       => /\ \A j, k \in DOMAIN bars : j < k => bars[j].timestamp <= bars[k].timestamp
          /\ \A k \in DOMAIN bars :
               bars[k].timestamp >= Rest_args.from /\ bars[k].timestamp <= Rest_args.to

\* the decimal string of a natural number
RECURSIVE DecimalString(_)
DecimalString(n) ==
  IF n < 10 THEN <<Digits[n + 1]>>
  ELSE DecimalString(n \div 10) \o <<Digits[(n % 10) + 1]>>

\* C24: OKXDataFeeds.getHistoryKLineData returns the upstream candles in
\* reversed order: the output is as long as the upstream page, and
\* output[i] carries the timestamp, open, high, low, close and volume of
\* upstream[n-1-i].
C24_OKXHistoryReversed ==
  \A i \in RestResolvedHistory("okx") :
    LET upstream == Rest_calls[i].response.body
        bars == Rest_calls[i].value
        n == Len(upstream)
    IN /\ Len(bars) = n
       /\ \A k \in DOMAIN bars :
            LET candle == upstream[n + 1 - k]
            IN /\ DecimalString(bars[k].timestamp) = candle[1]
               /\ DecimalString(bars[k].open) = candle[2]
               /\ DecimalString(bars[k].high) = candle[3]
               /\ DecimalString(bars[k].low) = candle[4]
               /\ DecimalString(bars[k].close) = candle[5]
               /\ DecimalString(bars[k].volume) = candle[6]

C24_Witness ==
  \E i \in RestResolvedHistory("okx") :
    /\ Len(Rest_calls[i].response.body) = 2
    /\ Rest_calls[i].response.body[1][1] = <<"2">>
    /\ Rest_calls[i].response.body[2][1] = <<"1">>
    /\ Rest_calls[i].value[1].timestamp = 1
    /\ Rest_calls[i].value[2].timestamp = 2
    /\ Rest_calls[i].value[1].volume = 12


\* the upstream request of a settled call failed: fetch rejected, the
\* status was not a success, the body was not JSON, or (OKX) the provider
\* code was not '0'
RestRequestFailed(call) ==
  \/ call.response.kind \in {"network", "http"}
  \/ call.response.kind = "ok" /\ ~call.response.json
  \/ Rest_adapter = "okx" /\ call.response.kind = "ok" /\ call.response.code # "0"

\* C26: LocalDataFeeds.getHistoryKLineData: a non-2xx response or a
\* malformed body makes the call reject; it does not resolve with a bar
\* list.
C26_LocalHistoryFailureRejects ==
  \A i \in DOMAIN Rest_calls :
    ( /\ Rest_adapter = "local"
      /\ Rest_calls[i].op = "history"
      /\ Rest_calls[i].pc = "done"
      /\ \/ Rest_calls[i].response.kind = "http"
         \/ Rest_calls[i].response.kind = "ok" /\ ~Rest_calls[i].response.json )
    => Rest_calls[i].outcome = "rejected"

\* C27 as stated: every getHistoryKLineData call of OKXDataFeeds,
\* DefaultDatafeed and CCXTDataFeeds issues exactly one upstream history
\* request, and rejects when that request fails.
C27_ExactlyOneHistoryRequest ==
  \A i \in DOMAIN Rest_calls :
    ( /\ Rest_adapter \in {"okx", "default", "ccxt"}
      /\ Rest_calls[i].op = "history"
      /\ Rest_calls[i].pc = "done" )
    => /\ Rest_calls[i].requests = 1
       /\ RestRequestFailed(Rest_calls[i]) => Rest_calls[i].outcome = "rejected"

\* C27: every getHistoryKLineData call of OKXDataFeeds, DefaultDatafeed and
\* CCXTDataFeeds issues at most one upstream history request: exactly one,
\* unless it is a CCXTDataFeeds call whose market load failed, which
\* rejects without a request. When the request fails the call rejects.
C27_AtMostOneHistoryRequest ==
  \A i \in DOMAIN Rest_calls :
    ( /\ Rest_adapter \in {"okx", "default", "ccxt"}
      /\ Rest_calls[i].op = "history" )
    => /\ Rest_calls[i].requests <= 1
       /\ Rest_calls[i].pc = "done" =>
            /\ \/ Rest_calls[i].requests = 1
               \/ /\ Rest_adapter = "ccxt"
                  /\ Rest_loads[Rest_calls[i].load] = "failed"
                  /\ Rest_calls[i].outcome = "rejected"
            /\ RestRequestFailed(Rest_calls[i]) => Rest_calls[i].outcome = "rejected"

C27_Witness ==
  /\ Rest_adapter = "okx"
  /\ Len(Rest_calls) = 1
  /\ Rest_calls[1].op = "history"
  /\ Rest_calls[1].pc = "done"
  /\ Rest_calls[1].response.kind = "ok"
  /\ Rest_calls[1].response.code = "1"
  /\ Rest_calls[1].requests = 1
  /\ Rest_calls[1].outcome = "rejected"

\* C28: searchSymbols of every adapter never rejects: when the upstream
\* request fails the call resolves with an empty list.
C28_SearchNeverRejects ==
  \A i \in DOMAIN Rest_calls :
    ( Rest_calls[i].op = "search" /\ Rest_calls[i].pc = "done" )
    => /\ Rest_calls[i].outcome = "resolved"
       /\ RestRequestFailed(Rest_calls[i]) => Rest_calls[i].value = <<>>


\* C29: CCXTDataFeeds: over any interleaving of searchSymbols and
\* getHistoryKLineData calls on one instance, when the first loadMarkets
\* call succeeds it is the only one, and the list it cached stays in place.
C29_MarketsLoadedOnce ==
  ( /\ Rest_adapter = "ccxt"
    /\ Len(Rest_loads) >= 1
    /\ Rest_loads[1] = "ok" )
  => /\ Len(Rest_loads) = 1
     /\ CCXT_markets.id = 1

\* the searchSymbols calls of CCXTDataFeeds that settled with the market
\* list in place
CCXTSearchesOnMarkets ==
  { i \in DOMAIN Rest_calls :
      /\ Rest_adapter = "ccxt"
      /\ Rest_calls[i].op = "search"
      /\ Rest_calls[i].pc = "done"
      /\ \/ Rest_calls[i].load = 0
         \/ Rest_loads[Rest_calls[i].load] = "ok" }

\* the tickers a call returned
RestTickers(call) == { call.value[k].ticker : k \in DOMAIN call.value }

\* the spot markets not marked inactive
CCXTSpotActive ==
  { m \in SeqRange(Rest_exchange.markets) : m.type = "spot" /\ m.active # "false" }

\* C30 as stated: CCXTDataFeeds.searchSymbols returns exactly the active
\* spot instruments when the query is empty, and otherwise exactly those
\* whose ticker, base or quote contains the query, case-insensitively.
C30_SearchByTickerBaseQuote ==
  \A i \in CCXTSearchesOnMarkets :
    LET q == ToLowerCase(Rest_args.search)
        wanted == { m \in CCXTSpotActive :
                      \/ Rest_args.search = <<>>
                      \/ IncludesString(ToLowerCase(m.symbol), q)
                      \/ IncludesString(ToLowerCase(m.base), q)
                      \/ IncludesString(ToLowerCase(m.quote), q) }
    IN /\ RestTickers(Rest_calls[i]) = { m.symbol : m \in wanted }
       /\ Len(Rest_calls[i].value) = Cardinality(wanted)

\* C30: CCXTDataFeeds.searchSymbols returns exactly the spot instruments
\* not marked inactive when the query is empty, and otherwise exactly those
\* whose ticker, base, quote, baseId or quoteId contains the query,
\* case-insensitively.
C30_SearchByTickerBaseQuoteIds ==
  \A i \in CCXTSearchesOnMarkets :
    LET q == ToLowerCase(Rest_args.search)
        wanted == { m \in CCXTSpotActive :
                      \/ Rest_args.search = <<>>
                      \/ IncludesString(ToLowerCase(m.symbol), q)
                      \/ IncludesString(ToLowerCase(m.base), q)
                      \/ IncludesString(ToLowerCase(m.quote), q)
                      \/ IncludesString(ToLowerCase(m.baseId), q)
                      \/ IncludesString(ToLowerCase(m.quoteId), q) }
    IN /\ RestTickers(Rest_calls[i]) = { m.symbol : m \in wanted }
       /\ Len(Rest_calls[i].value) = Cardinality(wanted)

C30_Witness ==
  \E i \in CCXTSearchesOnMarkets :
    /\ Rest_args.search = <<"X">>
    /\ Len(Rest_exchange.markets) = 2
    /\ Rest_exchange.markets[1].symbol = <<"E", "/", "U">>
    /\ Rest_exchange.markets[2].symbol = <<"B", "/", "U">>
    /\ RestTickers(Rest_calls[i]) = { <<"B", "/", "U">> }

(* ================= CCXTDataFeeds: the polling interval ================= *)

\* `${multiplier}m`: the characters of a timeframe
CCXT_timeframeString(timeframe) == DecimalString(timeframe[1]) \o <<timeframe[2]>>

\* String.prototype.replace(c, ''): the first occurrence removed
RemoveFirst(s, c) ==
  IF Includes(s, c)
  THEN LET i == CHOOSE k \in DOMAIN s : s[k] = c /\ \A j \in 1..(k - 1) : s[j] # c
       IN SubSeq(s, 1, i - 1) \o SubSeq(s, i + 1, Len(s))
  ELSE s

\* Math.min
Min(a, b) == IF a <= b THEN a ELSE b

\* an interval that follows the bar length without a cap
CCXT_getPollingInterval_uncapped(timeframe) ==
  IF EndsWith(timeframe, <<"m">>)
  THEN ParseInt(RemoveFirst(timeframe, "m")) * 60 * 1000
  ELSE IF EndsWith(timeframe, <<"h">>) THEN 5 * 60 * 1000
  ELSE IF EndsWith(timeframe, <<"d">>) THEN 15 * 60 * 1000
  ELSE 60000

\* _getPollingInterval(timeframe), in milliseconds
CCXT_getPollingInterval(timeframe) ==
  IF EndsWith(timeframe, <<"m">>)
  THEN Min(ParseInt(RemoveFirst(timeframe, "m")) * 60 * 1000, 60000)
  ELSE IF EndsWith(timeframe, <<"h">>) THEN 5 * 60 * 1000
  ELSE IF EndsWith(timeframe, <<"d">>) THEN 15 * 60 * 1000
  ELSE 60000

PollInit ==
  /\ Poll_period \in [multiplier : 0..MaxMultiplier, timespan : ConvTimespans]
  /\ Poll_done = FALSE
  /\ Poll_interval = 0

PollIdle ==
  /\ Poll_period = [multiplier |-> 1, timespan |-> "minute"]
  /\ Poll_done = FALSE
  /\ Poll_interval = 0

\* subscribe: const timeframe = this._convertPeriodToTimeframe(period), and
\* _subscribePolling: const interval = this._getPollingInterval(timeframe)
ApplyCCXTGetPollingInterval ==
  /\ ~Poll_done
  /\ Poll_done' = TRUE
  /\ Poll_interval' = CCXT_getPollingInterval(
                        CCXT_timeframeString(CCXT_convertPeriodToTimeframe(Poll_period)))
  /\ UNCHANGED Poll_period
  /\ UNCHANGED notPoll

PollNext ==
  \/ ApplyCCXTGetPollingInterval

\* C31: the polling interval is at most 60 s for minute bars, at most 5 min
\* for hourly bars, and at most 15 min for day, week and month bars.
C31_PollingIntervalCapped ==
  Poll_done =>
    CASE Poll_period.timespan = "minute" -> Poll_interval <= 60 * 1000
      [] Poll_period.timespan = "hour" -> Poll_interval <= 5 * 60 * 1000
      [] Poll_period.timespan \in {"day", "week", "month"} -> Poll_interval <= 15 * 60 * 1000
      [] OTHER -> TRUE

C31_Witness ==
  /\ Poll_done
  /\ Poll_period = [multiplier |-> 15, timespan |-> "minute"]
  /\ Poll_interval = 60000

(* ======================= ChartProComponent ============================= *)

MaxHostCalls == 2

HostSymbols == { [ticker |-> "BTC"], [ticker |-> "ETH"] }

HostPeriods ==
  { [multiplier |-> 1, timespan |-> "minute", text |-> "1m"],
    [multiplier |-> 1, timespan |-> "hour", text |-> "1H"] }

\* prev of the switch effect before its first complete run
NoPrev == [set |-> FALSE, symbol |-> [ticker |-> ""],
           period |-> [multiplier |-> 0, timespan |-> "", text |-> ""]]

\* what the widget shows before setSymbol / setPeriod
NoPair == [symbol |-> [ticker |-> ""],
           period |-> [multiplier |-> 0, timespan |-> "", text |-> ""]]

\* the request types the widget hands to getBars; "other" is any other string
HostTypes == {"init", "forward", "backward", "other"}

\* a getBars call: callbacks counts the invocations of params.callback,
\* bars ("none", "empty" or "some") and more are what the last one received
HostCall(type) ==
  [ type |-> type, pc |-> "await", outcome |-> "pending",
    callbacks |-> 0, bars |-> "none", more |-> FALSE ]

\* what the awaited datafeed.getHistoryKLineData settles with: a list
\* (empty or not), a value without length (null), or a rejection
HostOutcomes == {"empty", "some", "null", "rejected"}

\* a getBars whose catch block gives no answer
Host_getBars_silent(call, outcome) ==
  CASE outcome = "some" ->
         [call EXCEPT !.pc = "done", !.outcome = outcome,
                      !.callbacks = @ + 1, !.bars = "some", !.more = TRUE]
    [] outcome = "empty" ->
         [call EXCEPT !.pc = "done", !.outcome = outcome,
                      !.callbacks = @ + 1, !.bars = "empty", !.more = FALSE]
    [] OTHER ->
         [call EXCEPT !.pc = "done", !.outcome = outcome]

\* getBars after the await: callback(kLineDataList, length > 0), or the
\* catch block's callback([], false)
Host_getBars(call, outcome) ==
  CASE outcome = "some" ->
         [call EXCEPT !.pc = "done", !.outcome = outcome,
                      !.callbacks = @ + 1, !.bars = "some", !.more = TRUE]
    [] outcome = "empty" ->
         [call EXCEPT !.pc = "done", !.outcome = outcome,
                      !.callbacks = @ + 1, !.bars = "empty", !.more = FALSE]
    [] OTHER ->
         [call EXCEPT !.pc = "done", !.outcome = outcome,
                      !.callbacks = @ + 1, !.bars = "empty", !.more = FALSE]

HostState ==
  [ widget |-> Host_widget, shown |-> Host_shown, loading |-> Host_loading,
    prev |-> Host_prev, calls |-> Host_calls, unsubscribed |-> <<>> ]

\* getBars up to its await: loading = true, and for a known type the call
\* of datafeed.getHistoryKLineData; for another type callback([], false)
\* and the finally block
Host_getBarsStart(st, type) ==
  IF type \in {"init", "forward", "backward"}
  THEN [st EXCEPT !.loading = TRUE, !.calls = Append(@, HostCall(type))]
  ELSE [st EXCEPT !.loading = FALSE,
                  !.calls = Append(@, [HostCall(type) EXCEPT
                      !.pc = "done", !.outcome = "unknown",
                      !.callbacks = 1, !.bars = "empty", !.more = FALSE])]

\* widget.setSymbol(s): the widget shows s and, when load, asks for bars
Host_widgetSetSymbol(st, s, load) ==
  LET st1 == [st EXCEPT !.shown.symbol = s]
  IN IF load /\ Len(st1.calls) < MaxHostCalls THEN Host_getBarsStart(st1, "init") ELSE st1

\* widget.setPeriod(p): the widget shows p and, when load, asks for bars
Host_widgetSetPeriod(st, p, load) ==
  LET st1 == [st EXCEPT !.shown.period = p]
  IN IF load /\ Len(st1.calls) < MaxHostCalls THEN Host_getBarsStart(st1, "init") ELSE st1

\* the effect on symbol(): widget.setSymbol(s)
Host_symbolEffect(st, s, load) ==
  IF st.widget THEN Host_widgetSetSymbol(st, s, load) ELSE st

\* the effect on symbol() and period(): createEffect((prev) => ...)
Host_switchEffect(st, s, p, load) ==
  IF ~st.loading /\ st.widget
  THEN LET st1 == IF st.prev.set
                  THEN [st EXCEPT !.unsubscribed =
                          Append(@, [symbol |-> st.prev.symbol, period |-> st.prev.period])]
                  ELSE st
           st2 == IF ~st.prev.set \/ st.prev.symbol.ticker # s.ticker
                  THEN Host_widgetSetSymbol(st1, s, load) ELSE st1
           st3 == IF ~st.prev.set \/ st.prev.period.text # p.text
                  THEN Host_widgetSetPeriod(st2, p, load) ELSE st2
       IN [st3 EXCEPT !.loading = FALSE,
                      !.prev = [set |-> TRUE, symbol |-> s, period |-> p]]
  ELSE st

HostAssign(st, op) ==
  /\ Host_widget' = st.widget
  /\ Host_shown' = st.shown
  /\ Host_loading' = st.loading
  /\ Host_prev' = st.prev
  /\ Host_calls' = st.calls
  /\ Host_last' = [op |-> op, unsubscribed |-> st.unsubscribed]

HostInit ==
  /\ Host_symbol \in HostSymbols
  /\ Host_period \in HostPeriods
  /\ Host_widget = FALSE
  /\ Host_shown = NoPair
  /\ Host_loading = FALSE
  /\ Host_prev = NoPrev
  /\ Host_calls = <<>>
  /\ Host_last = [op |-> "init", unsubscribed |-> <<>>]

HostIdle ==
  /\ Host_symbol = [ticker |-> "BTC"]
  /\ Host_period = [multiplier |-> 1, timespan |-> "minute", text |-> "1m"]
  /\ Host_widget = FALSE
  /\ Host_shown = NoPair
  /\ Host_loading = FALSE
  /\ Host_prev = NoPrev
  /\ Host_calls = <<>>
  /\ Host_last = [op |-> "init", unsubscribed |-> <<>>]

\* onMount, then the first run of the two effects
HostMount ==
  /\ ~Host_widget
  /\ \E load1, load2, load3 \in BOOLEAN :
       LET st0 == [HostState EXCEPT !.widget = TRUE]
           st1 == Host_widgetSetSymbol(st0, Host_symbol, load1)
           st2 == Host_widgetSetPeriod(st1, Host_period, load1)
           st3 == Host_symbolEffect(st2, Host_symbol, load2)
           st4 == Host_switchEffect(st3, Host_symbol, Host_period, load3)
       IN HostAssign(st4, "mount")
  /\ UNCHANGED <<Host_symbol, Host_period>>
  /\ UNCHANGED notHost

\* ref.setSymbol(s): the signal changes and both effects run
HostSetSymbol ==
  /\ Host_widget
  /\ \E s \in HostSymbols \ {Host_symbol}, load1, load2 \in BOOLEAN :
       LET st1 == Host_symbolEffect(HostState, s, load1)
           st2 == Host_switchEffect(st1, s, Host_period, load2)
       IN /\ Host_symbol' = s
          /\ HostAssign(st2, "setSymbol")
  /\ UNCHANGED Host_period
  /\ UNCHANGED notHost

\* ref.setPeriod(p): the signal changes and the switch effect runs
HostSetPeriod ==
  /\ Host_widget
  /\ \E p \in HostPeriods \ {Host_period}, load \in BOOLEAN :
       /\ Host_period' = p
       /\ HostAssign(Host_switchEffect(HostState, Host_symbol, p, load), "setPeriod")
  /\ UNCHANGED Host_symbol
  /\ UNCHANGED notHost

\* the widget asks for bars on its own (scrolling, or a type the loader
\* does not know)
HostGetBars ==
  /\ Host_widget
  /\ Len(Host_calls) < MaxHostCalls
  /\ \E type \in HostTypes \ {"init"} :
       HostAssign(Host_getBarsStart(HostState, type), "getBars")
  /\ UNCHANGED <<Host_symbol, Host_period>>
  /\ UNCHANGED notHost

\* datafeed.getHistoryKLineData settles and getBars runs to its end
HostGetBarsSettle ==
  /\ \E i \in DOMAIN Host_calls, outcome \in HostOutcomes :
       /\ Host_calls[i].pc = "await"
       /\ HostAssign([HostState EXCEPT
                        !.calls[i] = Host_getBars(Host_calls[i], outcome),
                        !.loading = FALSE], "settle")
  /\ UNCHANGED <<Host_symbol, Host_period>>
  /\ UNCHANGED notHost

HostNext ==
  \/ HostMount
  \/ HostSetSymbol
  \/ HostSetPeriod
  \/ HostGetBars
  \/ HostGetBarsSettle


HostQuiescent == \A i \in DOMAIN Host_calls : Host_calls[i].pc = "done"

\* C37: every symbol or period change requested through setSymbol /
\* setPeriod is eventually applied, also when it arrives while a history
\* fetch is in flight: once every history fetch has settled, the widget
\* shows the requested symbol and period.
C37_ChangesApplied ==
  Host_widget /\ HostQuiescent
    => Host_shown = [symbol |-> Host_symbol, period |-> Host_period]

(* ============== CCXTDataFeeds: polling against an upstream ============= *)

\* exchange.fetchOHLCV(symbol, timeframe, since, 1) of an upstream that
\* holds candles and answers with the earliest one at or after since
Up_fetchOHLCV(candles, since) ==
  LET later == {c \in candles : c >= since}
  IN IF later = {} THEN [kind |-> "empty", ts |-> 0]
     ELSE [kind |-> "candles",
           ts |-> CHOOSE c \in later : \A d \in later : c <= d]

\* since = this._lastTimestamp || Date.now() - interval * 2: without a last
\* timestamp the request starts at an instant of the clock
Up_sinces(f) == IF f.since = 0 THEN 1..(MaxTs + 1) ELSE {f.since}

UpInit == Up_candles = {}

UpIdle == Up_candles = {}

\* the upstream closes a candle: the next timestamp
UpNewCandle ==
  /\ Cardinality(Up_candles) < MaxTs
  /\ Up_candles' = Up_candles \cup {Cardinality(Up_candles) + 1}
  /\ UNCHANGED notUp

\* the awaited fetchOHLCV of a fetchLatest invocation settles with the
\* upstream's answer
UpFetchSettle ==
  /\ ~CCXT_hasWatch
  /\ \E f \in BagToSet(CCXT_fetches) :
       \E since \in Up_sinces(f) :
         CCXTFetchSettle(f, Up_fetchOHLCV(Up_candles, since))

UpTimerTick ==
  /\ ~CCXT_hasWatch
  /\ \E t \in DOMAIN CCXT_timers : CCXTTimerTick(t)

UpSubscribe ==
  /\ ~CCXT_hasWatch
  /\ \E symbol \in CCXTSymbols, period \in CCXTPeriods : CCXTSubscribe(symbol, period)

UpUnsubscribe ==
  /\ ~CCXT_hasWatch
  /\ \E symbol \in CCXTSymbols, period \in CCXTPeriods : CCXTUnsubscribe(symbol, period)

UpNext ==
  \/ UpSubscribe
  \/ UpUnsubscribe
  \/ UpTimerTick
  \/ UpFetchSettle
  \/ UpNewCandle

\* C35: polling makes progress against an upstream that answers
\* fetchOHLCV(since, 1) with the earliest candle at or after since: whenever
\* the upstream holds a candle newer than the last one delivered to the
\* current subscription, that subscription ends or a later poll delivers a
\* candle with a larger timestamp.
C35_PollingProgress ==
  \A k \in 1..MaxCCXTSubs, t \in 1..MaxTs :
    ( /\ CCXT_currentCallback = k
      /\ CCXT_seen.polled = t
      /\ \E c \in Up_candles : c > t )
    ~> (CCXT_currentCallback # k \/ CCXT_seen.polled > t)

(* ===================== channel keys of two periods ===================== *)

KeyInit ==
  /\ Key_a \in ConvPeriods
  /\ Key_b \in ConvPeriods
  /\ Key_fn = "none"
  /\ Key_out = <<>>

KeyIdle ==
  /\ Key_a = [multiplier |-> 1, timespan |-> "minute"]
  /\ Key_b = [multiplier |-> 1, timespan |-> "minute"]
  /\ Key_fn = "none"
  /\ Key_out = <<>>

\* LocalDataFeeds: the channel key of one symbol with each period
ApplyLocalChannel ==
  /\ Key_fn = "none"
  /\ Key_fn' = "local"
  /\ Key_out' = <<Local_channel("BTC", Key_a), Local_channel("BTC", Key_b)>>
  /\ UNCHANGED <<Key_a, Key_b>>
  /\ UNCHANGED notKey

\* OKXDataFeeds: the channel of each period
ApplyOKXChannel ==
  /\ Key_fn = "none"
  /\ Key_fn' = "okx"
  /\ Key_out' = <<OKX_channel(Key_a), OKX_channel(Key_b)>>
  /\ UNCHANGED <<Key_a, Key_b>>
  /\ UNCHANGED notKey

KeyNext ==
  \/ ApplyLocalChannel
  \/ ApplyOKXChannel

\* C36: in LocalDataFeeds and OKXDataFeeds two periods that differ in
\* multiplier or unit produce different channel keys for the same symbol.
C36_ChannelKeysDistinct ==
  (Key_fn # "none" /\ Key_a # Key_b) => Key_out[1] # Key_out[2]

(* ========================= specifications ============================== *)

LocalIdle == LocalInit /\ Local_urlOk = TRUE

CCXTIdle == CCXTInit /\ CCXT_hasWatch = TRUE

\* one adapter instance runs while the other stays as constructed
InitLocal == LocalInit /\ CCXTIdle /\ OKXInit /\ DefInit /\ ConvIdle /\ TickIdle /\ BarsIdle /\ RestIdle /\ PollIdle /\ HostIdle /\ UpIdle /\ KeyIdle

SpecLocal == InitLocal /\ [][LocalNext]_vars

InitCCXT == LocalIdle /\ CCXTInit /\ OKXInit /\ DefInit /\ ConvIdle /\ TickIdle /\ BarsIdle /\ RestIdle /\ PollIdle /\ HostIdle /\ UpIdle /\ KeyIdle

SpecCCXT == InitCCXT /\ [][CCXTNext]_vars

InitOKX == LocalIdle /\ CCXTIdle /\ OKXInit /\ DefInit /\ ConvIdle /\ TickIdle /\ BarsIdle /\ RestIdle /\ PollIdle /\ HostIdle /\ UpIdle /\ KeyIdle

SpecOKX == InitOKX /\ [][OKXNext]_vars

InitDef == LocalIdle /\ CCXTIdle /\ OKXInit /\ DefInit /\ ConvIdle /\ TickIdle /\ BarsIdle /\ RestIdle /\ PollIdle /\ HostIdle /\ UpIdle /\ KeyIdle

SpecDef == InitDef /\ [][DefNext]_vars

\* any one of the adapters at work, the others as constructed
InitAny == LocalInit /\ CCXTInit /\ OKXInit /\ DefInit /\ ConvIdle /\ TickIdle /\ BarsIdle /\ RestIdle /\ PollIdle /\ HostIdle /\ UpIdle /\ KeyIdle

LocalAlone ==
  /\ CCXT_hasWatch /\ CCXT_last.op = "init"
  /\ OKX_last.op = "init" /\ Def_last.op = "init"
  /\ LocalNext

CCXTAlone ==
  /\ Local_urlOk /\ Local_last.op = "init"
  /\ OKX_last.op = "init" /\ Def_last.op = "init"
  /\ CCXTNext

OKXAlone ==
  /\ Local_urlOk /\ Local_last.op = "init"
  /\ CCXT_hasWatch /\ CCXT_last.op = "init" /\ Def_last.op = "init"
  /\ OKXNext

DefAlone ==
  /\ Local_urlOk /\ Local_last.op = "init"
  /\ CCXT_hasWatch /\ CCXT_last.op = "init" /\ OKX_last.op = "init"
  /\ DefNext

AnyNext == LocalAlone \/ CCXTAlone \/ OKXAlone \/ DefAlone

SpecAny == InitAny /\ [][AnyNext]_vars

\* C17 as stated: once a live connection or stream has dropped or failed,
\* no WebSocket, streaming loop or polling timer is started until the host
\* calls subscribe again: each of them is started by a subscribe call only.
C17_NothingStartedWithoutSubscribe ==
  [][/\ Len(Local_sockets') > Len(Local_sockets) => Local_last'.op = "subscribe"
     /\ Len(OKX_sockets') > Len(OKX_sockets) => OKX_last'.op = "subscribe"
     /\ Len(Def_sockets') > Len(Def_sockets) => Def_last'.op = "subscribe"
     /\ Len(CCXT_loops') > Len(CCXT_loops) => CCXT_last'.op = "subscribe"
     /\ Len(CCXT_timers') > Len(CCXT_timers) => CCXT_last'.op = "subscribe"]_vars

\* C17: no adapter opens a WebSocket or starts a streaming loop except in a
\* subscribe call; a polling timer is started by a subscribe call or by the
\* stream-failure handler of CCXTDataFeeds, which falls back to polling.
C17_NoAutomaticReconnect ==
  [][/\ Len(Local_sockets') > Len(Local_sockets) => Local_last'.op = "subscribe"
     /\ Len(OKX_sockets') > Len(OKX_sockets) => OKX_last'.op = "subscribe"
     /\ Len(Def_sockets') > Len(Def_sockets) => Def_last'.op = "subscribe"
     /\ Len(CCXT_loops') > Len(CCXT_loops) => CCXT_last'.op = "subscribe"
     /\ Len(CCXT_timers') > Len(CCXT_timers)
          => CCXT_last'.op \in {"subscribe", "watch-error"}]_vars

C17_Witness ==
  /\ CCXT_last.op = "watch-error"
  /\ CCXT_currentCallback # None
  /\ Len(CCXT_loops) = 1
  /\ CCXT_loops[1].pc = "done"
  /\ CCXTActiveTimers # {}

InitConv == LocalIdle /\ CCXTIdle /\ OKXInit /\ DefInit /\ ConvInit /\ TickIdle /\ BarsIdle /\ RestIdle /\ PollIdle /\ HostIdle /\ UpIdle /\ KeyIdle

SpecConv == InitConv /\ [][ConvNext]_vars

\* the ticker conversions applied to every SymbolInfo within the bounds
InitTick == LocalIdle /\ CCXTIdle /\ OKXInit /\ DefInit /\ ConvIdle /\ TickInit /\ BarsIdle /\ RestIdle /\ PollIdle /\ HostIdle /\ UpIdle /\ KeyIdle

SpecTick == InitTick /\ [][TickNext]_vars

\* the bar builders applied to every upstream record within the bounds
InitBars == LocalIdle /\ CCXTIdle /\ OKXInit /\ DefInit /\ ConvIdle /\ TickIdle /\ BarsInit /\ RestIdle /\ PollIdle /\ HostIdle /\ UpIdle /\ KeyIdle

SpecBars == InitBars /\ [][BarsNext]_vars

\* searchSymbols and getHistoryKLineData of one adapter instance, with
\* every upstream answer within the bounds
InitRest == LocalIdle /\ CCXTIdle /\ OKXInit /\ DefInit /\ ConvIdle /\ TickIdle /\ BarsIdle /\ RestInit /\ PollIdle /\ HostIdle /\ UpIdle /\ KeyIdle

SpecRest == InitRest /\ [][RestNext]_vars

\* the polling interval of every Period within the bounds
InitPoll == LocalIdle /\ CCXTIdle /\ OKXInit /\ DefInit /\ ConvIdle /\ TickIdle /\ BarsIdle /\ RestIdle /\ PollInit /\ HostIdle /\ UpIdle /\ KeyIdle

SpecPoll == InitPoll /\ [][PollNext]_vars

\* the chart host with every answer of the widget and of the datafeed
InitHost == LocalIdle /\ CCXTIdle /\ OKXInit /\ DefInit /\ ConvIdle /\ TickIdle /\ BarsIdle /\ RestIdle /\ PollIdle /\ HostInit /\ UpIdle /\ KeyIdle

SpecHost == InitHost /\ [][HostNext]_vars

\* polling of an exchange without watchOHLCV: the timer keeps ticking while
\* it is armed and the upstream answers every request
InitUp == LocalIdle /\ CCXTInit /\ CCXT_hasWatch = FALSE /\ OKXInit /\ DefInit /\ ConvIdle /\ TickIdle /\ BarsIdle /\ RestIdle /\ PollIdle /\ HostIdle /\ UpInit /\ KeyIdle

SpecUp == InitUp /\ [][UpNext]_vars /\ WF_vars(UpTimerTick) /\ WF_vars(UpFetchSettle)

\* the channel keys of every two Periods within the bounds
InitKey == LocalIdle /\ CCXTIdle /\ OKXInit /\ DefInit /\ ConvIdle /\ TickIdle /\ BarsIdle /\ RestIdle /\ PollIdle /\ HostIdle /\ UpIdle /\ KeyInit

SpecKey == InitKey /\ [][KeyNext]_vars


=============================================================================
